---- MODULE Spec2Model ----
(***************************************************************************)
(* Model of the hierarchy conversion and annotation core of cellmaps_utils *)
(* (ddotconverter.py, hidefconverter.py, hcx_utils.py, ndexupload.py).     *)
(*                                                                         *)
(* Representation.  A Python str is a sequence of symbols: the symbol " "  *)
(* is one space character, every other symbol is an atomic run of          *)
(* non-whitespace characters (a gene or cluster name).  The empty str is   *)
(* <<>>.  A CX2Network is a record [nodes, edges, net]: nodes is the       *)
(* sequence of the nodes' attribute maps in insertion order (node id =     *)
(* index - 1, as CX2Network.add_node numbers them from 0), edges the       *)
(* sequence of [s, t, v] in insertion order, net the network attributes.   *)
(* An input file is the sequence of its lines, a line the sequence of its  *)
(* tab-separated fields after strip().                                     *)
(***************************************************************************)
EXTENDS Integers, Sequences, FiniteSets, TLC

VARIABLES scenario, pc, cx2, ontology, nodesFile, edgesFile, interactome,
          hierarchy, other, outcome, files, call, edgelist, alts, diff, stack

vars == <<scenario, pc, cx2, ontology, nodesFile, edgesFile, interactome,
          hierarchy, other, outcome, files, call, edgelist, alts, diff, stack>>

-----------------------------------------------------------------------------
(* Bounds of the model *)

MaxLines == 3

MaxEdges == 2

MaxCalls == 3

(* Nodes in the hierarchies handed to HierarchyDiff, all together *)
MaxDiffNodes == 3

(* Alternative hierarchies handed to compute_hierarchy_robustness *)
MaxAlts == 2

(* Exported networks: their nodes all together *)
MaxExportNodes == 2

(* Structural lines of the ontology whose hierarchy is traversed step by step *)
MaxTravEdges == 3

(* Frames of _get_children_of_node the interpreter's stack holds: the cap on a *)
(* recursion that has no bound of its own, above the depth of every acyclic    *)
(* hierarchy over Clusters                                                     *)
MaxDepth == 4

(* The largest max_retries _save_network is called with *)
MaxRetries == 4

(* The universe of names the input files are drawn from *)
Clusters == {<<"A">>, <<"B">>, <<"C">>}

Genes == {<<"g1">>, <<"g2">>}

-----------------------------------------------------------------------------
(* Python values *)

None == -1

(* None where the code expects a str (host, uuid, url, path) *)
NoneStr == <<"None">>

Truthy(str) == str # NoneStr /\ str # <<>>

SPACE == " "

TAB == "\t"

NL == "\n"

Whitespace == {SPACE, TAB, NL}

EmptyAttrs == [k \in {} |-> 0]

EmptyNetwork == [nodes |-> <<>>, edges |-> <<>>, net |-> EmptyAttrs]

SetAttr(attrs, key, value) == (key :> value) @@ attrs

Range(seq) == {seq[i] : i \in 1..Len(seq)}

Perms(S) == {p \in [1..Cardinality(S) -> S] : \A x \in S : \E i \in DOMAIN p : p[i] = x}

(* list(a_set): the elements of S in the iteration order ord *)
ListOfSet(S, ord) == SelectSeq(ord, LAMBDA x : x \in S)

RECURSIVE SplitOn(_, _)
SplitOn(s, sep) ==
    IF \A i \in 1..Len(s) : s[i] # sep
    THEN <<s>>
    ELSE LET i == CHOOSE k \in 1..Len(s) : s[k] = sep /\ \A j \in 1..(k - 1) : s[j] # sep
         IN  <<SubSeq(s, 1, i - 1)>> \o SplitOn(SubSeq(s, i + 1, Len(s)), sep)

(* s.split(): split on runs of whitespace, no empty token *)
SplitWhitespace(s) ==
    LET spaced == [i \in 1..Len(s) |-> IF s[i] \in Whitespace THEN SPACE ELSE s[i]]
    IN  SelectSeq(SplitOn(spaced, SPACE), LAMBDA tok : tok # <<>>)

(* s.strip() *)
RECURSIVE LStrip(_)
LStrip(s) == IF s # <<>> /\ s[1] \in Whitespace THEN LStrip(Tail(s)) ELSE s

RECURSIVE RStrip(_)
RStrip(s) == IF s # <<>> /\ s[Len(s)] \in Whitespace
             THEN RStrip(SubSeq(s, 1, Len(s) - 1)) ELSE s

Strip(s) == RStrip(LStrip(s))

(* str(node_id), the fallback of a missing name *)
StrOfId(node_id) == <<ToString(node_id)>>

RECURSIVE JoinWith(_, _)
JoinWith(sep, list) ==
    IF list = <<>> THEN <<>>
    ELSE IF Len(list) = 1 THEN list[1]
    ELSE list[1] \o <<sep>> \o JoinWith(sep, Tail(list))

-----------------------------------------------------------------------------
(* CX2Network (ndex2), the part of its interface the converters use *)

NodeIds(net) == {i - 1 : i \in 1..Len(net.nodes)}

GetNode(net, node_id) == net.nodes[node_id + 1]

AddNode(net, attributes) == [net EXCEPT !.nodes = Append(@, attributes)]

AddEdge(net, source, target) ==
    [net EXCEPT !.edges = Append(@, [s |-> source, t |-> target, v |-> EmptyAttrs])]

AddNodeAttribute(net, node_id, key, value) ==
    [net EXCEPT !.nodes[node_id + 1] = SetAttr(@, key, value)]

AddNetworkAttribute(net, key, value) == [net EXCEPT !.net = SetAttr(@, key, value)]

RemoveNetworkAttribute(net, key) ==
    [net EXCEPT !.net = [k \in (DOMAIN @) \ {key} |-> @[k]]]

LookupNodeIdByName(net, name) ==
    LET hits == {i \in 1..Len(net.nodes) :
                    "name" \in DOMAIN net.nodes[i] /\ net.nodes[i]["name"] = name}
    IN  IF hits = {} THEN None
        ELSE (CHOOSE i \in hits : \A j \in hits : i <= j) - 1

-----------------------------------------------------------------------------
(* hcx_utils.get_interactome, local edge-list branch *)

InteractomeLine(net, parts) ==
    LET id_source_node == LookupNodeIdByName(net, parts[1])
        net1 == IF id_source_node # None THEN net
                ELSE AddNode(net, SetAttr(EmptyAttrs, "name", parts[1]))
        source_node == IF id_source_node # None THEN id_source_node
                       ELSE Len(net1.nodes) - 1
        id_target_node == LookupNodeIdByName(net1, parts[2])
        net2 == IF id_target_node # None THEN net1
                ELSE AddNode(net1, SetAttr(EmptyAttrs, "name", parts[2]))
        target_node == IF id_target_node # None THEN id_target_node
                       ELSE Len(net2.nodes) - 1
    IN  AddEdge(net2, source_node, target_node)

RECURSIVE InteractomeLines(_, _, _)
InteractomeLines(net, lines, i) ==
    IF i > Len(lines) THEN [status |-> "ok", net |-> net]
    ELSE LET parts == SplitWhitespace(lines[i]) IN
         IF Len(parts) < 2 THEN [status |-> "IndexError", net |-> net]
         ELSE InteractomeLines(InteractomeLine(net, parts), lines, i + 1)

GetInteractome(parent_edgelist) == InteractomeLines(EmptyNetwork, parent_edgelist, 1)

-----------------------------------------------------------------------------
(* DDOTToHierarchyConverter *)

Lower(sym) == CASE sym = "Gene" -> "gene"
                [] sym = "GENE" -> "gene"
                [] OTHER -> sym

(* Faulty variant: 'gene' in edge_type, without lower() *)
IsGeneTypeCaseSensitive(edge_type) == \E i \in 1..Len(edge_type) : edge_type[i] = "gene"

(* 'gene' in edge_type.lower() *)
IsGeneType(edge_type) == \E i \in 1..Len(edge_type) : Lower(edge_type[i]) = "gene"

(* One iteration of the line loop of _get_hierarchy on parts = line.strip().split('\t') *)
HierarchyLine(h, inter, parts) ==
    LET source == parts[1]
        target == parts[2]
        edge_type == parts[3]
    IN
    IF IsGeneType(edge_type)
    THEN LET source_id == LookupNodeIdByName(h, source) IN
         IF source_id # None
         THEN LET node_attr == GetNode(h, source_id)
                  target_id == LookupNodeIdByName(inter, target)
              IN  IF "CD_MemberList" \notin DOMAIN node_attr
                  THEN AddNodeAttribute(
                           AddNodeAttribute(h, source_id, "CD_MemberList", target),
                           source_id, "HCX::members", <<target_id>>)
                  ELSE AddNodeAttribute(
                           AddNodeAttribute(h, source_id, "CD_MemberList",
                                            node_attr["CD_MemberList"] \o <<SPACE>> \o target),
                           source_id, "HCX::members",
                           Append(node_attr["HCX::members"], target_id))
         ELSE h
    ELSE LET found_source == LookupNodeIdByName(h, source)
             h1 == IF found_source # None THEN h
                   ELSE AddNode(h, SetAttr(EmptyAttrs, "name", source))
             source_id == IF found_source # None THEN found_source ELSE Len(h1.nodes) - 1
             found_target == LookupNodeIdByName(h1, target)
             h2 == IF found_target # None THEN h1
                   ELSE AddNode(h1, SetAttr(EmptyAttrs, "name", target))
             target_id == IF found_target # None THEN found_target ELSE Len(h2.nodes) - 1
         IN  AddEdge(h2, source_id, target_id)

RECURSIVE HierarchyLines(_, _, _, _)
HierarchyLines(h, inter, lines, i) ==
    IF i > Len(lines) THEN [status |-> "ok", net |-> h]
    ELSE LET parts == SplitOn(Strip(lines[i]), TAB) IN
         IF Len(parts) # 3 THEN [status |-> "ValueError", net |-> h]
         ELSE HierarchyLines(HierarchyLine(h, inter, parts), inter, lines, i + 1)

(* _get_children_of_node.  depth is the number of frames still available: *)
(* a call chain longer than the number of nodes revisits a node, and from  *)
(* there the recursion repeats for ever, which CPython ends with a         *)
(* RecursionError.                                                         *)
RECURSIVE ChildrenLoop(_, _, _, _, _)
ChildrenLoop(network, node_id, i, child_set, depth) ==
    IF i > Len(network.edges) THEN [ok |-> TRUE, set |-> child_set]
    ELSE LET edge_obj == network.edges[i] IN
         IF edge_obj.s = node_id /\ edge_obj.t \notin child_set
         THEN IF depth = 0 THEN [ok |-> FALSE, set |-> {}]
              ELSE LET sub == ChildrenLoop(network, edge_obj.t, 1, {}, depth - 1) IN
                   IF ~sub.ok THEN sub
                   ELSE ChildrenLoop(network, node_id, i + 1,
                                     child_set \cup {edge_obj.t} \cup sub.set, depth)
         ELSE ChildrenLoop(network, node_id, i + 1, child_set, depth)

GetChildrenOfNode(network, node_id) ==
    ChildrenLoop(network, node_id, 1, {}, Len(network.nodes))

(* _get_memberlists_from_nodes: the gene set and the id set, before list() *)
GeneSetOfNodes(h, node_set) ==
    UNION { IF "CD_MemberList" \notin DOMAIN GetNode(h, n) THEN {}
            ELSE Range(SplitOn(GetNode(h, n)["CD_MemberList"], SPACE)) : n \in node_set }

HcxSetOfNodes(h, inter, node_set) ==
    {LookupNodeIdByName(inter, member) : member \in GeneSetOfNodes(h, node_set)}

GetMemberlistsFromNodes(h, inter, node_set, gene_order, id_order) ==
    [member_list |-> ListOfSet(GeneSetOfNodes(h, node_set), gene_order),
     member_ids  |-> ListOfSet(HcxSetOfNodes(h, inter, node_set), id_order)]

(* _update_memberlist, nodes in insertion order starting with node id i *)
RECURSIVE UpdateMemberlistFrom(_, _, _, _, _)
UpdateMemberlistFrom(h, inter, i, gene_order, id_order) ==
    IF i >= Len(h.nodes) THEN [status |-> "ok", net |-> h]
    ELSE LET children_nodes == GetChildrenOfNode(h, i) IN
         IF ~children_nodes.ok THEN [status |-> "RecursionError", net |-> h]
         ELSE LET lists == GetMemberlistsFromNodes(h, inter, children_nodes.set \cup {i},
                                                   gene_order, id_order)
                  h1 == AddNodeAttribute(h, i, "CD_MemberList",
                                         JoinWith(SPACE, lists.member_list))
                  h2 == AddNodeAttribute(h1, i, "HCX::members", lists.member_ids)
              IN  UpdateMemberlistFrom(h2, inter, i + 1, gene_order, id_order)

UpdateMemberlist(h, inter, gene_order, id_order) ==
    UpdateMemberlistFrom(h, inter, 0, gene_order, id_order)

-----------------------------------------------------------------------------
(* hcx_utils.get_root_nodes / add_isroot_node_attribute *)

(* Faulty variant: the edge scan collects the sources instead of the targets *)
GetRootNodesBySource(h) == NodeIds(h) \ {h.edges[i].s : i \in 1..Len(h.edges)}

(* Faulty variant: the edge scan stops after the first edge *)
GetRootNodesFirstEdge(h) ==
    NodeIds(h) \ {h.edges[i].t : i \in 1..(IF Len(h.edges) > 0 THEN 1 ELSE 0)}

GetRootNodes(h) == NodeIds(h) \ {h.edges[i].t : i \in 1..Len(h.edges)}

AddIsRootNodeAttribute(h, root_nodes) ==
    [h EXCEPT !.nodes = [i \in 1..Len(h.nodes) |->
                            SetAttr(h.nodes[i], "HCX::isRoot", (i - 1) \in root_nodes)]]

(* DDOTToHierarchyConverter._get_hierarchy after its line loop: parsed is the *)
(* loop's result                                                              *)
FinishHierarchy(parsed, inter, gene_order, id_order) ==
    IF parsed.status # "ok" THEN [status |-> parsed.status, net |-> EmptyNetwork]
    ELSE LET updated == UpdateMemberlist(parsed.net, inter, gene_order, id_order) IN
         IF updated.status # "ok" THEN [status |-> updated.status, net |-> EmptyNetwork]
         ELSE [status |-> "ok",
               net |-> AddIsRootNodeAttribute(updated.net, GetRootNodes(updated.net))]

(* DDOTToHierarchyConverter._get_hierarchy *)
GetHierarchy(lines, inter, gene_order, id_order) ==
    FinishHierarchy(HierarchyLines(EmptyNetwork, inter, lines, 1), inter, gene_order, id_order)

-----------------------------------------------------------------------------
(* HierarchyToDDOTConverter.generate_ontology_ddot_file: the lines written *)

NodeNameOrId(h, node_id) ==
    IF "name" \in DOMAIN GetNode(h, node_id) THEN GetNode(h, node_id)["name"]
    ELSE StrOfId(node_id)

GetAttrOr(attrs, key, default) == IF key \in DOMAIN attrs THEN attrs[key] ELSE default

RECURSIVE Flatten(_)
Flatten(lists) == IF lists = <<>> THEN <<>> ELSE lists[1] \o Flatten(Tail(lists))

OntologyEdgeLines(h) ==
    [i \in 1..Len(h.edges) |->
        NodeNameOrId(h, h.edges[i].s) \o <<TAB>> \o NodeNameOrId(h, h.edges[i].t)
            \o <<TAB, "default", NL>>]

OntologyGeneLines(h) ==
    Flatten([i \in 1..Len(h.nodes) |->
        LET node == NodeNameOrId(h, i - 1)
            genes == SplitOn(GetAttrOr(h.nodes[i], "CD_MemberList", <<>>), SPACE)
        IN  [k \in 1..Len(genes) |-> node \o <<TAB>> \o genes[k] \o <<TAB, "gene", NL>>]])

GenerateOntologyDdotFile(h) == OntologyEdgeLines(h) \o OntologyGeneLines(h)

-----------------------------------------------------------------------------
(* HiDeFToHierarchyConverter._get_hierarchy *)

(* Faulty variant: the genes the interactome does not know are left out of *)
(* HCX::members                                                           *)
HidefNodeKnownMembers(inter, parts) ==
    LET genes == SplitWhitespace(parts[3])
        ids == [k \in 1..Len(genes) |-> LookupNodeIdByName(inter, genes[k])]
    IN  ("name" :> parts[1]) @@ ("CD_MemberList_Size" :> parts[2])
            @@ ("CD_MemberList" :> parts[3])
            @@ ("HCX::members" :> SelectSeq(ids, LAMBDA id : id # None))
            @@ ("HiDeF_persistence" :> parts[4])

HidefNode(inter, parts) ==
    LET genes == SplitWhitespace(parts[3])
        hcx_members == [k \in 1..Len(genes) |-> LookupNodeIdByName(inter, genes[k])]
    IN  ("name" :> parts[1]) @@ ("CD_MemberList_Size" :> parts[2])
            @@ ("CD_MemberList" :> parts[3]) @@ ("HCX::members" :> hcx_members)
            @@ ("HiDeF_persistence" :> parts[4])

RECURSIVE HidefNodeLines(_, _, _, _)
HidefNodeLines(h, inter, lines, i) ==
    IF i > Len(lines) THEN [status |-> "ok", net |-> h]
    ELSE LET parts == SplitOn(Strip(lines[i]), TAB) IN
         IF Len(parts) # 4 THEN [status |-> "ValueError", net |-> h]
         ELSE HidefNodeLines(AddNode(h, HidefNode(inter, parts)), inter, lines, i + 1)

(* Faulty variant: the edge loop ends at the first edge that does not resolve *)
RECURSIVE HidefEdgeLinesStopAtUnresolved(_, _, _)
HidefEdgeLinesStopAtUnresolved(h, lines, i) ==
    IF i > Len(lines) THEN [status |-> "ok", net |-> h]
    ELSE LET parts == SplitOn(Strip(lines[i]), TAB) IN
         IF Len(parts) # 3 THEN [status |-> "ValueError", net |-> h]
         ELSE LET source_id == LookupNodeIdByName(h, parts[1])
                  target_id == LookupNodeIdByName(h, parts[2])
              IN  IF source_id # None /\ target_id # None
                  THEN HidefEdgeLinesStopAtUnresolved(AddEdge(h, source_id, target_id),
                                                      lines, i + 1)
                  ELSE [status |-> "ok", net |-> h]

RECURSIVE HidefEdgeLines(_, _, _)
HidefEdgeLines(h, lines, i) ==
    IF i > Len(lines) THEN [status |-> "ok", net |-> h]
    ELSE LET parts == SplitOn(Strip(lines[i]), TAB) IN
         IF Len(parts) # 3 THEN [status |-> "ValueError", net |-> h]
         ELSE LET source_id == LookupNodeIdByName(h, parts[1])
                  target_id == LookupNodeIdByName(h, parts[2])
              IN  HidefEdgeLines(IF source_id # None /\ target_id # None
                                 THEN AddEdge(h, source_id, target_id) ELSE h,
                                 lines, i + 1)

HidefGetRootNodes(h) == NodeIds(h) \ {h.edges[i].t : i \in 1..Len(h.edges)}

HidefAddIsRootNodeAttribute(h, root_nodes) ==
    [h EXCEPT !.nodes = [i \in 1..Len(h.nodes) |->
                            SetAttr(h.nodes[i], "HCX::isRoot", (i - 1) \in root_nodes)]]

HidefGetHierarchy(nodes_lines, edges_lines, inter) ==
    LET with_nodes == HidefNodeLines(EmptyNetwork, inter, nodes_lines, 1) IN
    IF with_nodes.status # "ok" THEN [status |-> with_nodes.status, net |-> EmptyNetwork]
    ELSE LET with_edges == HidefEdgeLines(with_nodes.net, edges_lines, 1) IN
         IF with_edges.status # "ok" THEN [status |-> with_edges.status, net |-> EmptyNetwork]
         ELSE [status |-> "ok",
               net |-> HidefAddIsRootNodeAttribute(with_edges.net,
                                                   HidefGetRootNodes(with_edges.net))]

-----------------------------------------------------------------------------
(* hcx_utils: network annotations *)

(* get_host_and_uuid_from_network_url *)
GetHostAndUuidFromNetworkUrl(network_url) ==
    IF network_url = NoneStr THEN [host |-> NoneStr, uuid |-> NoneStr]
    ELSE LET stripped == SelectSeq(network_url, LAMBDA x : x # "https://" /\ x # "http:/")
             parts == SplitOn(stripped, "/")
         IN  [host |-> parts[1], uuid |-> parts[Len(parts)]]

(* Faulty variant: an interactome, when given, is always written and linked by name *)
AddHcxNetworkAnnotationsEmbeddedFirst(h, has_interactome, interactome_name, host, uuid) ==
    IF uuid = NoneStr /\ ~has_interactome
    THEN [status |-> "CellMapsError", net |-> h, written |-> {}]
    ELSE LET h1 == AddNetworkAttribute(h, "ndexSchema", <<"hierarchy_v0.1">>)
             h2 == AddNetworkAttribute(h1, "HCX::modelFileCount", <<"2">>)
         IN  IF has_interactome
             THEN [status |-> "ok",
                   net |-> AddNetworkAttribute(h2, "HCX::interactionNetworkName",
                                               interactome_name),
                   written |-> {interactome_name}]
             ELSE [status |-> "ok",
                   net |-> AddNetworkAttribute(
                               AddNetworkAttribute(h2, "HCX::interactionNetworkHost", host),
                               "HCX::interactionNetworkUUID", uuid),
                   written |-> {}]

(* add_hcx_network_annotations(hierarchy, interactome, output_dir, interactome_name, *)
(* host, uuid); has_interactome is FALSE when interactome is None.  The result     *)
(* carries the hierarchy object as the call leaves it and the files it wrote.      *)
AddHcxNetworkAnnotations(h, has_interactome, interactome_name, host, uuid) ==
    IF uuid = NoneStr /\ ~has_interactome
    THEN [status |-> "CellMapsError", net |-> h, written |-> {}]
    ELSE LET h1 == AddNetworkAttribute(h, "ndexSchema", <<"hierarchy_v0.1">>)
             h2 == AddNetworkAttribute(h1, "HCX::modelFileCount", <<"2">>)
         IN  IF Truthy(host) /\ Truthy(uuid)
             THEN [status |-> "ok",
                   net |-> AddNetworkAttribute(
                               AddNetworkAttribute(h2, "HCX::interactionNetworkHost", host),
                               "HCX::interactionNetworkUUID", uuid),
                   written |-> {}]
             ELSE IF ~has_interactome
             THEN [status |-> "AttributeError", net |-> h2, written |-> {}]
             ELSE [status |-> "ok",
                   net |-> AddNetworkAttribute(h2, "HCX::interactionNetworkName",
                                               interactome_name),
                   written |-> {interactome_name}]

(* add_hcx_members_annotation *)
AddHcxMembersAnnotation(h, inter, gene_column) ==
    [h EXCEPT !.nodes = [i \in 1..Len(h.nodes) |->
        LET memberlist == SplitOn(GetAttrOr(h.nodes[i], gene_column, <<>>), SPACE)
            ids == [k \in 1..Len(memberlist) |-> LookupNodeIdByName(inter, memberlist[k])]
            membersids == SelectSeq(ids, LAMBDA id : id # None)
        IN  SetAttr(h.nodes[i], "HCX::members", membersids)]]

(* convert_hierarchical_network_to_hcx; remote is what the NDEx client answers *)
ConvertHierarchicalNetworkToHcx(h, interactome_url, remote, gene_column) ==
    LET hu == GetHostAndUuidFromNetworkUrl(interactome_url)
        annotated == AddHcxNetworkAnnotations(h, FALSE, <<"hierarchy_parent.cx2">>,
                                              hu.host, hu.uuid)
    IN  IF annotated.status # "ok" THEN annotated
        ELSE IF remote.status # "ok"
        THEN [status |-> remote.status, net |-> annotated.net, written |-> {}]
        ELSE LET with_members == AddHcxMembersAnnotation(annotated.net, remote.net, gene_column)
             IN  [status |-> "ok",
                  net |-> AddIsRootNodeAttribute(with_members, GetRootNodes(with_members)),
                  written |-> {}]

(* HiDeFToHierarchyConverter._add_hcx_network_annotations with self.host, self.uuid *)
HidefAddHcxNetworkAnnotations(h, interactome_name, host, uuid) ==
    LET h1 == AddNetworkAttribute(h, "ndexSchema", <<"hierarchy_v0.1">>)
        h2 == AddNetworkAttribute(h1, "HCX::modelFileCount", <<"2">>)
    IN  IF Truthy(host) /\ Truthy(uuid)
        THEN [status |-> "ok",
              net |-> AddNetworkAttribute(
                          AddNetworkAttribute(h2, "HCX::interactionNetworkHost", host),
                          "HCX::interactionNetworkUUID", uuid),
              written |-> {}]
        ELSE [status |-> "ok",
              net |-> AddNetworkAttribute(h2, "HCX::interactionNetworkName", interactome_name),
              written |-> {interactome_name}]

(* NDExHierarchyUploader._update_hcx_annotations: the annotated copy it returns *)
UpdateHcxAnnotations(h, interactome_id) ==
    RemoveNetworkAttribute(
        AddNetworkAttribute(h, "HCX::interactionNetworkUUID", interactome_id),
        "HCX::interactionNetworkName")

-----------------------------------------------------------------------------
(* Inputs *)

TextLine(fields) == JoinWith(TAB, fields) \o <<NL>>

(* Lines of a DDOT ontology file *)
StructuralLines == {TextLine(<<s, t, <<"default">> >>) : s \in Clusters, t \in Clusters}

GeneLines == {TextLine(<<c, g, <<"gene">> >>) : c \in Clusters, g \in Genes}

OntologyLines == StructuralLines \cup GeneLines

(* Parent interactome edge lists *)
ParentEdgelists == { << <<"g1", TAB, "g3", NL>> >> }

Interactomes == {GetInteractome(el).net : el \in ParentEdgelists}

(* The gene tokens that occur in the member lists of h, and the empty token *)
TokensOf(h) ==
    {<<>>} \cup UNION {Range(SplitOn(GetAttrOr(h.nodes[i], "CD_MemberList", <<>>), SPACE)) :
                          i \in 1..Len(h.nodes)}

(* Iteration orders of a set of str: any order (str hashes are salted per process) *)
GeneOrders(h) == Perms(TokensOf(h))

RECURSIVE Ascending(_)
Ascending(S) ==
    IF S = {} THEN <<>>
    ELSE LET m == CHOOSE x \in S : \A y \in S : x <= y IN <<m>> \o Ascending(S \ {m})

(* Iteration orders of a set of node ids: small ints iterate in ascending order, *)
(* None falls anywhere                                                          *)
IdOrders(h, inter) ==
    LET ids == {LookupNodeIdByName(inter, tok) : tok \in TokensOf(h)}
        ascending == Ascending(ids \ {None})
    IN  IF None \notin ids THEN {ascending}
        ELSE {SubSeq(ascending, 1, k) \o <<None>> \o SubSeq(ascending, k + 1, Len(ascending)) :
                k \in 0..Len(ascending)}

LineOrders(seq) ==
    {[i \in 1..Len(seq) |-> seq[p[i]]] : p \in Perms(1..Len(seq))}

(* HiDeF .nodes lines (name, member count, members, persistence) and .edges lines *)
MemberFields == { <<<<"0">>, <<>>>>, <<<<"1">>, <<"g1">>>>, <<<<"2">>, <<"g1", SPACE, "g2">>>> }

HidefNodesLines == {TextLine(<<c, m[1], m[2], <<"5">> >>) : c \in Clusters, m \in MemberFields}

HidefEdgesLines == StructuralLines

(* Hierarchies loaded from a CX2 file: up to three named nodes, each with or *)
(* without a CD_MemberList                                                   *)
NodeNames == <<<<"A">>, <<"B">>, <<"C">>>>

MemberLists == {<<>>, <<"g1">>, <<"g1", SPACE, "g2">>}

NodeAttrs(name) ==
    {SetAttr(EmptyAttrs, "name", name)}
        \cup {("name" :> name) @@ ("CD_MemberList" :> m) : m \in MemberLists}

(* NDEx network URLs, hosts and UUIDs *)
NetworkUrl(scheme) == scheme \o <<"ndexbio.org", "/", "v3", "/", "networks", "/", "uuid1">>

Urls == {NoneStr, NetworkUrl(<<"https://">>), NetworkUrl(<<"http:/", "/">>)}

Hosts == {NoneStr, <<>>, <<"ndexbio.org">>}

Uuids == {NoneStr, <<"uuid1">>}

InteractomeName == <<"hierarchy_parent.cx2">>

NoCall == [op |-> "none", n |-> 0]

NoResult == [status |-> "none", net |-> EmptyNetwork, lines |-> <<>>]

NoDiff == [op |-> "none"]

-----------------------------------------------------------------------------
(* DDOT ontology -> Hierarchy *)

Blank(name) ==
    /\ scenario = name
    /\ pc = "input"
    /\ interactome \in Interactomes
    /\ cx2 = EmptyNetwork
    /\ ontology = <<>>
    /\ nodesFile = <<>>
    /\ edgesFile = <<>>
    /\ hierarchy = EmptyNetwork
    /\ other = NoResult
    /\ outcome = "none"
    /\ files = {}
    /\ call = NoCall
    /\ edgelist = <<>>
    /\ alts = <<>>
    /\ diff = NoDiff
    /\ stack = <<>>

InitDdot == Blank("ddot")

(* The next line of the ontology file the converter is given *)
OntologyFileLine ==
    /\ pc = "input"
    /\ scenario = "ddot"
    /\ Len(ontology) < MaxLines
    /\ \E line \in OntologyLines : ontology' = Append(ontology, line)
    /\ UNCHANGED <<scenario, pc, cx2, nodesFile, edgesFile, interactome, hierarchy, other,
                   outcome, files, call,
                   edgelist, alts, diff, stack>>

(* DDOTToHierarchyConverter._get_hierarchy on the ontology file *)
DdotGetHierarchy ==
    /\ \/ pc = "input" /\ scenario = "ddot"
       \/ pc = "written" /\ scenario = "roundtrip"
    /\ LET parsed == HierarchyLines(EmptyNetwork, interactome, ontology, 1) IN
       \E gene_order \in GeneOrders(parsed.net), id_order \in IdOrders(parsed.net, interactome) :
          LET res == FinishHierarchy(parsed, interactome, gene_order, id_order) IN
          /\ hierarchy' = res.net
          /\ outcome' = res.status
    /\ pc' = "converted"
    /\ UNCHANGED <<scenario, cx2, ontology, nodesFile, edgesFile, interactome, other,
                   files, call,
                   edgelist, alts, diff, stack>>

(* _update_memberlist run once more on the converted hierarchy *)
UpdateMemberlistAgain ==
    /\ pc = "converted"
    /\ scenario = "ddot"
    /\ outcome = "ok"
    /\ \E gene_order \in GeneOrders(hierarchy), id_order \in IdOrders(hierarchy, interactome) :
          LET res == UpdateMemberlist(hierarchy, interactome, gene_order, id_order) IN
          /\ hierarchy' = res.net
          /\ outcome' = res.status
    /\ pc' = "updated"
    /\ UNCHANGED <<scenario, cx2, ontology, nodesFile, edgesFile, interactome, other,
                   files, call,
                   edgelist, alts, diff, stack>>

(* _get_hierarchy on the same lines in another order *)
ConvertPermuted ==
    /\ pc = "converted"
    /\ scenario = "ddot"
    /\ \E lines \in LineOrders(ontology) :
       LET parsed == HierarchyLines(EmptyNetwork, interactome, lines, 1) IN
       \E gene_order \in GeneOrders(parsed.net), id_order \in IdOrders(parsed.net, interactome) :
          LET res == FinishHierarchy(parsed, interactome, gene_order, id_order) IN
          other' = [status |-> res.status, net |-> res.net, lines |-> lines]
    /\ pc' = "permuted"
    /\ UNCHANGED <<scenario, cx2, ontology, nodesFile, edgesFile, interactome, hierarchy,
                   outcome, files, call,
                   edgelist, alts, diff, stack>>

NextDdot == OntologyFileLine \/ DdotGetHierarchy \/ UpdateMemberlistAgain \/ ConvertPermuted

SpecDdot == InitDdot /\ [][NextDdot]_vars

-----------------------------------------------------------------------------
(* HiDeF -> Hierarchy *)

InitHidef == Blank("hidef")

(* The next line of the .nodes file, then of the .edges file *)
NodesFileLine ==
    /\ pc = "input"
    /\ scenario = "hidef"
    /\ edgesFile = <<>>
    /\ Len(nodesFile) < MaxLines
    /\ \E line \in HidefNodesLines : nodesFile' = Append(nodesFile, line)
    /\ UNCHANGED <<scenario, pc, cx2, ontology, edgesFile, interactome, hierarchy, other,
                   outcome, files, call,
                   edgelist, alts, diff, stack>>

EdgesFileLine ==
    /\ pc = "input"
    /\ scenario = "hidef"
    /\ Len(nodesFile) + Len(edgesFile) < MaxLines
    /\ \E line \in HidefEdgesLines : edgesFile' = Append(edgesFile, line)
    /\ UNCHANGED <<scenario, pc, cx2, ontology, nodesFile, interactome, hierarchy, other,
                   outcome, files, call,
                   edgelist, alts, diff, stack>>

(* HiDeFToHierarchyConverter._get_hierarchy on the .nodes and .edges files *)
HidefConvert ==
    /\ pc = "input"
    /\ scenario = "hidef"
    /\ LET res == HidefGetHierarchy(nodesFile, edgesFile, interactome) IN
          /\ hierarchy' = res.net
          /\ outcome' = res.status
    /\ pc' = "converted"
    /\ UNCHANGED <<scenario, cx2, ontology, nodesFile, edgesFile, interactome, other,
                   files, call,
                   edgelist, alts, diff, stack>>

-----------------------------------------------------------------------------
(* convert_hierarchical_network_to_hcx on a loaded hierarchy *)

InitHcx == Blank("hcx")

(* The hierarchy in the CX2 file: its next node, then its next edge *)
Cx2Node ==
    /\ pc = "input"
    /\ scenario \in {"hcx", "roundtrip"}
    /\ cx2.edges = <<>>
    /\ Len(cx2.nodes) < Len(NodeNames)
    /\ \E attrs \in NodeAttrs(NodeNames[Len(cx2.nodes) + 1]) : cx2' = AddNode(cx2, attrs)
    /\ UNCHANGED <<scenario, pc, ontology, nodesFile, edgesFile, interactome, hierarchy,
                   other, outcome, files, call,
                   edgelist, alts, diff, stack>>

Cx2Edge ==
    /\ pc = "input"
    /\ scenario \in {"hcx", "roundtrip"}
    /\ Len(cx2.edges) < MaxEdges
    /\ \E source \in NodeIds(cx2), target \in NodeIds(cx2) : cx2' = AddEdge(cx2, source, target)
    /\ UNCHANGED <<scenario, pc, ontology, nodesFile, edgesFile, interactome, hierarchy,
                   other, outcome, files, call,
                   edgelist, alts, diff, stack>>

HcxConvert ==
    /\ pc = "input"
    /\ scenario = "hcx"
    /\ \E url \in Urls, remote_status \in {"ok", "RemoteError"} :
          LET res == ConvertHierarchicalNetworkToHcx(
                         cx2, url, [status |-> remote_status, net |-> interactome],
                         "CD_MemberList")
          IN  /\ hierarchy' = res.net
              /\ outcome' = res.status
              /\ call' = [op |-> "convert_hierarchical_network_to_hcx", n |-> 1,
                          url |-> url, status |-> res.status]
    /\ pc' = "converted"
    /\ UNCHANGED <<scenario, cx2, ontology, nodesFile, edgesFile, interactome, other, files,
                   edgelist, alts, diff, stack>>

Init == InitDdot \/ InitHidef \/ InitHcx

Next ==
    \/ OntologyFileLine
    \/ DdotGetHierarchy
    \/ NodesFileLine
    \/ EdgesFileLine
    \/ HidefConvert
    \/ Cx2Node
    \/ Cx2Edge
    \/ HcxConvert

Spec == Init /\ [][Next]_vars

-----------------------------------------------------------------------------
(* Hierarchy -> DDOT ontology -> Hierarchy *)

InitRoundTrip == Blank("roundtrip")

(* HierarchyToDDOTConverter.generate_ontology_ddot_file *)
WriteOntology ==
    /\ pc = "input"
    /\ scenario = "roundtrip"
    /\ ontology' = GenerateOntologyDdotFile(cx2)
    /\ files' = files \cup {<<"ontology.ont">>}
    /\ pc' = "written"
    /\ UNCHANGED <<scenario, cx2, nodesFile, edgesFile, interactome, hierarchy, other,
                   outcome, call,
                   edgelist, alts, diff, stack>>

NextRoundTrip == Cx2Node \/ Cx2Edge \/ WriteOntology \/ DdotGetHierarchy

SpecRoundTrip == InitRoundTrip /\ [][NextRoundTrip]_vars

-----------------------------------------------------------------------------
(* Annotation operations applied to one hierarchy, in any sequence *)

AnnotHierarchies ==
    {EmptyNetwork,
     [nodes |-> <<("name" :> <<"A">>) @@ ("CD_MemberList" :> <<"g1">>)>>,
      edges |-> <<>>, net |-> EmptyAttrs]}

InitAnnot ==
    /\ scenario = "annot"
    /\ pc = "annotating"
    /\ hierarchy \in AnnotHierarchies
    /\ interactome \in Interactomes
    /\ cx2 = EmptyNetwork
    /\ ontology = <<>>
    /\ nodesFile = <<>>
    /\ edgesFile = <<>>
    /\ other = NoResult
    /\ outcome = "none"
    /\ files = {}
    /\ call = NoCall
    /\ edgelist = <<>>
    /\ alts = <<>>
    /\ diff = NoDiff
    /\ stack = <<>>

CanAnnotate == scenario = "annot" /\ pc = "annotating" /\ call.n < MaxCalls

(* hcx_utils.add_hcx_network_annotations, as DDOTToHierarchyConverter and others call it *)
CallAddHcxNetworkAnnotations ==
    /\ CanAnnotate
    /\ \E host \in Hosts, uuid \in Uuids, has_interactome \in BOOLEAN :
          LET res == AddHcxNetworkAnnotations(hierarchy, has_interactome, InteractomeName,
                                              host, uuid)
          IN  /\ hierarchy' = res.net
              /\ outcome' = res.status
              /\ files' = files \cup res.written
              /\ call' = [op |-> "add_hcx_network_annotations", n |-> call.n + 1,
                          host |-> host, uuid |-> uuid, has_interactome |-> has_interactome,
                          status |-> res.status]
    /\ UNCHANGED <<scenario, pc, cx2, ontology, nodesFile, edgesFile, interactome, other,
                   edgelist, alts, diff, stack>>

CallConvertHierarchicalNetworkToHcx ==
    /\ CanAnnotate
    /\ \E url \in Urls, remote_status \in {"ok", "RemoteError"} :
          LET res == ConvertHierarchicalNetworkToHcx(
                         hierarchy, url, [status |-> remote_status, net |-> interactome],
                         "CD_MemberList")
          IN  /\ hierarchy' = res.net
              /\ outcome' = res.status
              /\ call' = [op |-> "convert_hierarchical_network_to_hcx", n |-> call.n + 1,
                          url |-> url, status |-> res.status]
    /\ UNCHANGED <<scenario, pc, cx2, ontology, nodesFile, edgesFile, interactome, other,
                   files,
                   edgelist, alts, diff, stack>>

(* HiDeFToHierarchyConverter._add_hcx_network_annotations: self.host and self.uuid *)
(* are both None (local parent) or both taken from the parent URL                  *)
CallHidefAddHcxNetworkAnnotations ==
    /\ CanAnnotate
    /\ \E remote_parent \in BOOLEAN :
          LET host == IF remote_parent THEN <<"ndexbio.org">> ELSE NoneStr
              uuid == IF remote_parent THEN <<"uuid1">> ELSE NoneStr
              res == HidefAddHcxNetworkAnnotations(hierarchy, InteractomeName, host, uuid)
          IN  /\ hierarchy' = res.net
              /\ outcome' = res.status
              /\ files' = files \cup res.written
              /\ call' = [op |-> "_add_hcx_network_annotations", n |-> call.n + 1,
                          host |-> host, uuid |-> uuid, status |-> res.status]
    /\ UNCHANGED <<scenario, pc, cx2, ontology, nodesFile, edgesFile, interactome, other,
                   edgelist, alts, diff, stack>>

(* NDExHierarchyUploader._update_hcx_annotations; the copy it returns is the *)
(* hierarchy from then on                                                    *)
CallUpdateHcxAnnotations ==
    /\ CanAnnotate
    /\ \E interactome_id \in Uuids \ {NoneStr} :
          /\ hierarchy' = UpdateHcxAnnotations(hierarchy, interactome_id)
          /\ call' = [op |-> "_update_hcx_annotations", n |-> call.n + 1,
                      uuid |-> interactome_id, status |-> "ok"]
    /\ outcome' = "ok"
    /\ UNCHANGED <<scenario, pc, cx2, ontology, nodesFile, edgesFile, interactome, other,
                   files,
                   edgelist, alts, diff, stack>>

NextAnnot ==
    \/ CallAddHcxNetworkAnnotations
    \/ CallConvertHierarchicalNetworkToHcx
    \/ CallHidefAddHcxNetworkAnnotations
    \/ CallUpdateHcxAnnotations

SpecAnnot == InitAnnot /\ [][NextAnnot]_vars

-----------------------------------------------------------------------------
(* The converters from construction to the files they write *)

(* DDOTToHierarchyConverter.__init__: the error it raises, if any *)
DdotToHierarchyInit(parent_ddot_path, parent_ndex_url, parent_uuid) ==
    IF parent_ndex_url = NoneStr /\ parent_ddot_path = NoneStr THEN "CellMapsError"
    ELSE IF parent_ddot_path # NoneStr /\ (parent_ndex_url # NoneStr \/ parent_uuid # NoneStr)
    THEN "CellMapsError"
    ELSE "ok"

(* HiDeFToHierarchyConverter.__init__: the error it raises, if any *)
HidefToHierarchyInit(parent_ndex_url, parent_edgelist_path) ==
    IF parent_ndex_url = NoneStr /\ parent_edgelist_path = NoneStr THEN "CellMapsError"
    ELSE "ok"

(* CX2Network.add_edge_attribute on the edge add_edge has just returned *)
AddEdgeAttribute(net, edge_index, key, value) ==
    [net EXCEPT !.edges[edge_index].v = SetAttr(@, key, value)]

(* DDOTToInteractomeConverter.generate_interactome_file: the line loop.  parts is *)
(* 0-based in the code: parts[1] needs two fields, parts[3] needs four.           *)
RECURSIVE InteractomeDdotLines(_, _, _)
InteractomeDdotLines(net, lines, i) ==
    IF i > Len(lines) THEN [status |-> "ok", net |-> net]
    ELSE LET parts == SplitOn(Strip(lines[i]), TAB) IN
         IF Len(parts) < 2 THEN [status |-> "IndexError", net |-> net]
         ELSE LET net1 == InteractomeLine(net, parts) IN
              IF Len(parts) >= 3
              THEN IF Len(parts) < 4 THEN [status |-> "IndexError", net |-> net1]
                   ELSE InteractomeDdotLines(
                            AddEdgeAttribute(net1, Len(net1.edges), "interaction", parts[4]),
                            lines, i + 1)
              ELSE InteractomeDdotLines(net1, lines, i + 1)

InteractomeFileName == <<"interactome.cx2">>

HierarchyFileName == <<"hierarchy.cx2">>

(* DDOTToInteractomeConverter.generate_interactome_file *)
GenerateInteractomeFile(lines) ==
    LET res == InteractomeDdotLines(EmptyNetwork, lines, 1) IN
    IF res.status # "ok" THEN [status |-> res.status, net |-> EmptyNetwork, written |-> {}]
    ELSE [status |-> "ok", net |-> res.net, written |-> {InteractomeFileName}]

(* hcx_utils.get_interactome; remote is what the NDEx client answers *)
GetInteractomeOf(host, uuid, parent_edgelist, lines, remote) ==
    IF parent_edgelist # NoneStr
    THEN LET res == GetInteractome(lines) IN
         IF res.status # "ok" THEN [status |-> res.status, net |-> EmptyNetwork] ELSE res
    ELSE IF host # NoneStr /\ uuid # NoneStr THEN remote
    ELSE [status |-> "ok", net |-> EmptyNetwork]

(* HiDeFToHierarchyConverter._get_interactome: sets self.host and self.uuid from *)
(* the url when there is one, and reads the edge list otherwise                  *)
HidefGetInteractome(parent_url, lines, remote) ==
    IF parent_url # NoneStr
    THEN LET stripped == SelectSeq(parent_url, LAMBDA x : x # "https://" /\ x # "http:/")
             parts == SplitOn(stripped, "/")
         IN  IF Len(parts) # 4
             THEN [status |-> "ValueError", net |-> EmptyNetwork,
                   host |-> NoneStr, uuid |-> NoneStr]
             ELSE [status |-> remote.status, net |-> remote.net,
                   host |-> parts[1], uuid |-> parts[4]]
    ELSE LET res == GetInteractome(lines) IN
         [status |-> res.status,
          net |-> IF res.status = "ok" THEN res.net ELSE EmptyNetwork,
          host |-> NoneStr, uuid |-> NoneStr]

(* Lines of the files the converters are pointed at, well formed and not: too few *)
(* fields, a blank line, names separated by a space instead of a tab              *)
EdgelistPath == <<"parent.tsv">>

DefaultHost == <<"ndexbio.org">>

FileEdgelistLines ==
    { TextLine(<< <<"g1">>, <<"g3">> >>),
      TextLine(<< <<"g1">>, <<"g2">>, <<"binds">> >>),
      TextLine(<< <<"g2">>, <<"g3">>, <<"x">>, <<"binds">> >>),
      TextLine(<< <<"g1">> >>),
      <<NL>>,
      <<"g1", SPACE, "g3", NL>> }

FileOntologyLines ==
    { TextLine(<< <<"A">>, <<"B">>, <<"default">> >>),
      TextLine(<< <<"A">>, <<"g1">>, <<"gene">> >>),
      TextLine(<< <<"B">>, <<"g2">>, <<"gene">> >>),
      TextLine(<< <<"A">>, <<"B">> >>),
      <<NL>> }

FileNodesLines ==
    { TextLine(<< <<"A">>, <<"1">>, <<"g1">>, <<"5">> >>),
      TextLine(<< <<"B">>, <<"0">>, <<>>, <<"5">> >>),
      TextLine(<< <<"A">>, <<"1">>, <<"g1">> >>),
      <<NL>> }

FileEdgesLines ==
    { TextLine(<< <<"A">>, <<"B">>, <<"default">> >>),
      TextLine(<< <<"A">>, <<"C">>, <<"default">> >>),
      TextLine(<< <<"A">>, <<"B">> >>),
      <<NL>> }

(* What the NDEx client answers when asked for the parent interactome *)
RemoteAnswers ==
    {[status |-> "ok", net |-> i] : i \in Interactomes}
        \cup {[status |-> "RemoteError", net |-> EmptyNetwork]}

InitFiles ==
    /\ scenario \in {"ddot_files", "hidef_files", "interactome_file"}
    /\ pc = "new"
    /\ interactome = EmptyNetwork
    /\ cx2 = EmptyNetwork
    /\ ontology = <<>>
    /\ nodesFile = <<>>
    /\ edgesFile = <<>>
    /\ hierarchy = EmptyNetwork
    /\ other = NoResult
    /\ outcome = "none"
    /\ files = {}
    /\ call = NoCall
    /\ edgelist = <<>>
    /\ alts = <<>>
    /\ diff = NoDiff
    /\ stack = <<>>

Constructed(op, parent_edgelist, parent_ndex_url, parent_uuid, status) ==
    /\ call' = [op |-> op, n |-> 1, parent_edgelist |-> parent_edgelist,
                parent_ndex_url |-> parent_ndex_url, parent_uuid |-> parent_uuid,
                status |-> status]
    /\ pc' = IF status = "ok" THEN "input" ELSE "failed"
    /\ UNCHANGED <<scenario, cx2, ontology, nodesFile, edgesFile, interactome, hierarchy,
                   other, outcome, files, edgelist, alts, diff, stack>>

ConstructDdotToHierarchy ==
    /\ pc = "new"
    /\ scenario = "ddot_files"
    /\ \E parent_ddot_path \in {NoneStr, EdgelistPath},
          parent_ndex_url \in {NoneStr, NetworkUrl(<<"https://">>)},
          parent_uuid \in Uuids :
          Constructed("DDOTToHierarchyConverter", parent_ddot_path, parent_ndex_url,
                      parent_uuid,
                      DdotToHierarchyInit(parent_ddot_path, parent_ndex_url, parent_uuid))

ConstructHidefToHierarchy ==
    /\ pc = "new"
    /\ scenario = "hidef_files"
    /\ \E parent_ndex_url \in {NoneStr, NetworkUrl(<<"https://">>)},
          parent_edgelist_path \in {NoneStr, EdgelistPath} :
          Constructed("HiDeFToHierarchyConverter", parent_edgelist_path, parent_ndex_url,
                      NoneStr, HidefToHierarchyInit(parent_ndex_url, parent_edgelist_path))

(* DDOTToInteractomeConverter.__init__ only stores the paths *)
ConstructDdotToInteractome ==
    /\ pc = "new"
    /\ scenario = "interactome_file"
    /\ Constructed("DDOTToInteractomeConverter", EdgelistPath, NoneStr, NoneStr, "ok")

LinesGiven == Len(edgelist) + Len(ontology) + Len(nodesFile) + Len(edgesFile)

(* The next line of the edge list file of the parent interactome *)
FilesEdgelistLine ==
    /\ pc = "input"
    /\ scenario \in {"ddot_files", "hidef_files", "interactome_file"}
    /\ call.parent_edgelist # NoneStr
    /\ ontology = <<>> /\ nodesFile = <<>> /\ edgesFile = <<>>
    /\ LinesGiven < MaxLines
    /\ \E line \in FileEdgelistLines : edgelist' = Append(edgelist, line)
    /\ UNCHANGED <<scenario, pc, cx2, ontology, nodesFile, edgesFile, interactome,
                   hierarchy, other, outcome, files, call, alts, diff, stack>>

FilesOntologyLine ==
    /\ pc = "input"
    /\ scenario = "ddot_files"
    /\ LinesGiven < MaxLines
    /\ \E line \in FileOntologyLines : ontology' = Append(ontology, line)
    /\ UNCHANGED <<scenario, pc, cx2, nodesFile, edgesFile, interactome, hierarchy, other,
                   outcome, files, call, edgelist, alts, diff, stack>>

FilesNodesLine ==
    /\ pc = "input"
    /\ scenario = "hidef_files"
    /\ edgesFile = <<>>
    /\ LinesGiven < MaxLines
    /\ \E line \in FileNodesLines : nodesFile' = Append(nodesFile, line)
    /\ UNCHANGED <<scenario, pc, cx2, ontology, edgesFile, interactome, hierarchy, other,
                   outcome, files, call, edgelist, alts, diff, stack>>

FilesEdgesLine ==
    /\ pc = "input"
    /\ scenario = "hidef_files"
    /\ LinesGiven < MaxLines
    /\ \E line \in FileEdgesLines : edgesFile' = Append(edgesFile, line)
    /\ UNCHANGED <<scenario, pc, cx2, ontology, nodesFile, interactome, hierarchy, other,
                   outcome, files, call, edgelist, alts, diff, stack>>

(* What a generate_* method leaves behind: the networks it built, its outcome and *)
(* the files it wrote                                                             *)
Generated(status, inter, h, written) ==
    /\ outcome' = status
    /\ interactome' = inter
    /\ hierarchy' = h
    /\ files' = files \cup written
    /\ pc' = "generated"
    /\ UNCHANGED <<scenario, cx2, ontology, nodesFile, edgesFile, other, call, edgelist,
                   alts, diff, stack>>

(* DDOTToHierarchyConverter.generate_hierarchy_hcx_file *)
DdotGenerateHierarchyHcxFile ==
    /\ pc = "input"
    /\ scenario = "ddot_files"
    /\ \E remote \in RemoteAnswers :
       LET got == GetInteractomeOf(DefaultHost, call.parent_uuid, call.parent_edgelist,
                                   edgelist, remote)
       IN
       IF got.status # "ok" THEN Generated(got.status, EmptyNetwork, EmptyNetwork, {})
       ELSE LET parsed == HierarchyLines(EmptyNetwork, got.net, ontology, 1) IN
            \E gene_order \in GeneOrders(parsed.net), id_order \in IdOrders(parsed.net, got.net) :
               LET res == FinishHierarchy(parsed, got.net, gene_order, id_order) IN
               IF res.status # "ok" THEN Generated(res.status, got.net, EmptyNetwork, {})
               ELSE LET annotated == AddHcxNetworkAnnotations(
                                         res.net, TRUE, InteractomeName, DefaultHost,
                                         call.parent_uuid)
                    IN  Generated(annotated.status, got.net, annotated.net,
                                  annotated.written \cup {HierarchyFileName})

(* HiDeFToHierarchyConverter.generate_hierarchy_hcx_file *)
HidefGenerateHierarchyHcxFile ==
    /\ pc = "input"
    /\ scenario = "hidef_files"
    /\ \E remote \in RemoteAnswers :
       LET got == HidefGetInteractome(call.parent_ndex_url, edgelist, remote) IN
       IF got.status # "ok" THEN Generated(got.status, EmptyNetwork, EmptyNetwork, {})
       ELSE LET res == HidefGetHierarchy(nodesFile, edgesFile, got.net) IN
            IF res.status # "ok" THEN Generated(res.status, got.net, EmptyNetwork, {})
            ELSE LET annotated == HidefAddHcxNetworkAnnotations(
                                      res.net, InteractomeName, got.host, got.uuid)
                 IN  Generated("ok", got.net, annotated.net,
                               annotated.written \cup {HierarchyFileName})

(* DDOTToInteractomeConverter.generate_interactome_file *)
DdotGenerateInteractomeFile ==
    /\ pc = "input"
    /\ scenario = "interactome_file"
    /\ LET res == GenerateInteractomeFile(edgelist) IN
       Generated(res.status, res.net, EmptyNetwork, res.written)

NextFiles ==
    \/ ConstructDdotToHierarchy
    \/ ConstructHidefToHierarchy
    \/ ConstructDdotToInteractome
    \/ FilesEdgelistLine
    \/ FilesOntologyLine
    \/ FilesNodesLine
    \/ FilesEdgesLine
    \/ DdotGenerateHierarchyHcxFile
    \/ HidefGenerateHierarchyHcxFile
    \/ DdotGenerateInteractomeFile

SpecFiles == InitFiles /\ [][NextFiles]_vars

-----------------------------------------------------------------------------
(* HierarchyDiff (hierdiff.py) *)

(* A float read as the fraction num/den, den > 0.  The quotients and thresholds *)
(* met here have small numerators and denominators, for which float division    *)
(* and comparison agree with the fractions.                                     *)
Frac(num, den) == [num |-> num, den |-> den]

FracGreater(x, y) == x.num * y.den > y.num * x.den

(* Faulty variant: no guard against an empty union *)
CalculateJaccardUnguarded(setA, setB) ==
    Frac(Cardinality(setA \cap setB), Cardinality(setA \cup setB))

(* Faulty variant: the overlap is divided by the size of the first set *)
CalculateJaccardOverFirst(setA, setB) ==
    LET overlap == Cardinality(setA \cap setB)
        first == Cardinality(setA)
    IN  IF first > 0 THEN Frac(overlap, first) ELSE Frac(0, 1)

(* HierarchyDiff._calculate_jaccard *)
CalculateJaccard(setA, setB) ==
    LET overlap == Cardinality(setA \cap setB)
        union == Cardinality(setA \cup setB)
    IN  IF union > 0 THEN Frac(overlap, union) ELSE Frac(0, 1)

(* set(node_obj.get('v', {}).get('CD_MemberList', '').split()) *)
CompGenes(attrs) == Range(SplitWhitespace(GetAttrOr(attrs, "CD_MemberList", <<>>)))

(* _hierarchy_overlap: ji_df, one row per node of alt, one column per node of ref *)
JiDf(ref_hierarchy, alt_hierarchy) ==
    [a \in 1..Len(alt_hierarchy.nodes) |->
        [r \in 1..Len(ref_hierarchy.nodes) |->
            LET ont_comp_genes == CompGenes(alt_hierarchy.nodes[a])
                comp_genes == CompGenes(ref_hierarchy.nodes[r])
            IN  IF ont_comp_genes # {} /\ comp_genes # {}
                THEN CalculateJaccard(ont_comp_genes, comp_genes)
                ELSE Frac(0, 1)]]

(* _hierarchy_overlap: the pass/fail matrix (ji_df > ji_thre).astype(int) *)
HierarchyOverlap(ref_hierarchy, alt_hierarchy, ji_thre) ==
    LET ji_df == JiDf(ref_hierarchy, alt_hierarchy) IN
    [a \in 1..Len(alt_hierarchy.nodes) |->
        [r \in 1..Len(ref_hierarchy.nodes) |->
            IF FracGreater(ji_df[a][r], ji_thre) THEN 1 ELSE 0]]

(* A robustness value: NaN, or (int_min * -2^63 + num) / den.  int_min is 1 when *)
(* the int64 sum holds the value a NaN was cast to on x86-64.                    *)
NaN == [nan |-> TRUE, int_min |-> 0, num |-> 0, den |-> 1]

Number(int_min, num, den) == [nan |-> FALSE, int_min |-> int_min, num |-> num, den |-> den]

(* Faulty variant: the minimum over the rows instead of the maximum *)
ColumnMin(pass_fail_df, r) ==
    IF Len(pass_fail_df) = 0 THEN NaN
    ELSE IF \A a \in 1..Len(pass_fail_df) : pass_fail_df[a][r] = 1
    THEN Number(0, 1, 1) ELSE Number(0, 0, 1)

(* ji_df.max(axis=0): per column of ref the maximum over the rows, NaN when the *)
(* frame has no row                                                             *)
ColumnMax(pass_fail_df, r) ==
    IF Len(pass_fail_df) = 0 THEN NaN
    ELSE IF \E a \in 1..Len(pass_fail_df) : pass_fail_df[a][r] = 1
    THEN Number(0, 1, 1) ELSE Number(0, 0, 1)

(* What np.array(maxs).astype(int) makes of a NaN: undefined in C, -2^63 on *)
(* x86-64 and 0 on aarch64                                                  *)
NanCasts == {"int_min", "zero"}

(* np.array(maxs).astype(int), as the pair (count of -2^63, small int) *)
AsTypeInt(value, nan_cast) ==
    IF value.nan THEN (IF nan_cast = "int_min" THEN Number(1, 0, 1) ELSE Number(0, 0, 1))
    ELSE value

(* r_hier['robustness'] for node r after the loop over alt_hiers[1..i]: an int64 *)
(* sum, in which -2^63 added twice wraps to 0                                    *)
RECURSIVE RobustnessSum(_, _, _, _, _, _)
RobustnessSum(ref_hier, alt_hiers, ji_thre, nan_cast, r, i) ==
    IF i = 0 THEN Number(0, 0, 1)
    ELSE LET before == RobustnessSum(ref_hier, alt_hiers, ji_thre, nan_cast, r, i - 1)
             ji_df == HierarchyOverlap(ref_hier, alt_hiers[i], ji_thre)
             maxs == AsTypeInt(ColumnMax(ji_df, r), nan_cast)
         IN  Number((before.int_min + maxs.int_min) % 2, before.num + maxs.num, 1)

(* compute_hierarchy_robustness: the reference hierarchy it returns.  With no *)
(* alternative the division is 0/0, which pandas answers with NaN.            *)
ComputeHierarchyRobustness(ref_hierarchy, alt_hierarchies, ji_thre, nan_cast) ==
    [ref_hierarchy EXCEPT !.nodes = [r \in 1..Len(ref_hierarchy.nodes) |->
        LET sum == RobustnessSum(ref_hierarchy, alt_hierarchies, ji_thre, nan_cast, r,
                                 Len(alt_hierarchies))
        IN  SetAttr(ref_hierarchy.nodes[r], "robustness",
                    IF Len(alt_hierarchies) = 0 THEN NaN
                    ELSE Number(sum.int_min, sum.num, Len(alt_hierarchies)))]]

(* compare_hierarchies: hierarchy_a as it returns it *)
CompareHierarchies(hierarchy_a, hierarchy_b, ji_thre) ==
    LET ji_df == HierarchyOverlap(hierarchy_a, hierarchy_b, ji_thre) IN
    [hierarchy_a EXCEPT !.nodes = [r \in 1..Len(hierarchy_a.nodes) |->
        SetAttr(hierarchy_a.nodes[r], "robustness", ColumnMax(ji_df, r))]]

(* Hierarchies handed to HierarchyDiff: nodes without CD_MemberList, with an *)
(* empty or blank one, and with gene lists that overlap in part              *)
DiffGenes == {<<"g1">>, <<"g2">>, <<"g3">>}

DiffMemberLists ==
    {<<>>, <<SPACE>>, <<"g1">>, <<"g1", SPACE, "g2">>, <<"g2", SPACE, "g3">>}

DiffNodeAttrs == {EmptyAttrs} \cup {SetAttr(EmptyAttrs, "CD_MemberList", m) : m \in DiffMemberLists}

(* ji_thre: 0, 1/3, the default 0.4, and 1 *)
Thresholds == {Frac(0, 1), Frac(1, 3), Frac(2, 5), Frac(1, 1)}

RECURSIVE NodesIn(_)
NodesIn(hierarchies) ==
    IF hierarchies = <<>> THEN 0
    ELSE Len(Head(hierarchies).nodes) + NodesIn(Tail(hierarchies))

InitDiff == Blank("diff")

(* The reference hierarchy's next node *)
DiffRefNode ==
    /\ pc = "input"
    /\ scenario = "diff"
    /\ alts = <<>>
    /\ Len(cx2.nodes) < MaxDiffNodes
    /\ \E attrs \in DiffNodeAttrs : cx2' = AddNode(cx2, attrs)
    /\ UNCHANGED <<scenario, pc, ontology, nodesFile, edgesFile, interactome, hierarchy,
                   other, outcome, files, call, edgelist, alts, diff, stack>>

(* One more alternative hierarchy, still without nodes *)
DiffAlt ==
    /\ pc = "input"
    /\ scenario = "diff"
    /\ Len(alts) < MaxAlts
    /\ alts' = Append(alts, EmptyNetwork)
    /\ UNCHANGED <<scenario, pc, cx2, ontology, nodesFile, edgesFile, interactome,
                   hierarchy, other, outcome, files, call, edgelist, diff, stack>>

(* The next node of the last alternative hierarchy *)
DiffAltNode ==
    /\ pc = "input"
    /\ scenario = "diff"
    /\ alts # <<>>
    /\ Len(cx2.nodes) + NodesIn(alts) < MaxDiffNodes
    /\ \E attrs \in DiffNodeAttrs :
          alts' = [alts EXCEPT ![Len(alts)] = AddNode(@, attrs)]
    /\ UNCHANGED <<scenario, pc, cx2, ontology, nodesFile, edgesFile, interactome,
                   hierarchy, other, outcome, files, call, edgelist, diff, stack>>

(* HierarchyDiff._calculate_jaccard(setA, setB), and with the arguments swapped *)
CallCalculateJaccard ==
    /\ pc = "input"
    /\ scenario = "diff"
    /\ cx2 = EmptyNetwork
    /\ alts = <<>>
    /\ \E setA \in SUBSET DiffGenes, setB \in SUBSET DiffGenes :
          diff' = [op |-> "_calculate_jaccard", setA |-> setA, setB |-> setB,
                   value |-> CalculateJaccard(setA, setB),
                   swapped |-> CalculateJaccard(setB, setA)]
    /\ pc' = "computed"
    /\ UNCHANGED <<scenario, cx2, ontology, nodesFile, edgesFile, interactome, hierarchy,
                   other, outcome, files, call, edgelist, alts, stack>>

(* compare_hierarchies(hierarchy_a, hierarchy_b, ji_thre) on the reference and the *)
(* one alternative                                                                 *)
CallCompareHierarchies ==
    /\ pc = "input"
    /\ scenario = "diff"
    /\ Len(alts) = 1
    /\ \E ji_thre \in Thresholds :
          /\ other' = [status |-> "ok", net |-> CompareHierarchies(cx2, alts[1], ji_thre),
                       lines |-> <<>>]
          /\ diff' = [op |-> "compare_hierarchies", ji_thre |-> ji_thre,
                      ji |-> <<JiDf(cx2, alts[1])>>]
    /\ pc' = "compared"
    /\ UNCHANGED <<scenario, cx2, ontology, nodesFile, edgesFile, interactome, hierarchy,
                   outcome, files, call, edgelist, alts, stack>>

(* compute_hierarchy_robustness(ref_hierarchy, alt_hierarchies, ji_thre); after *)
(* compare_hierarchies it is given the same hierarchies and threshold           *)
CallComputeHierarchyRobustness ==
    /\ pc \in {"input", "compared"}
    /\ scenario = "diff"
    /\ \E ji_thre \in Thresholds, nan_cast \in NanCasts :
          /\ pc = "compared" => ji_thre = diff.ji_thre
          /\ hierarchy' = ComputeHierarchyRobustness(cx2, alts, ji_thre, nan_cast)
          /\ diff' = [op |-> "compute_hierarchy_robustness", ji_thre |-> ji_thre,
                      ji |-> [i \in 1..Len(alts) |-> JiDf(cx2, alts[i])]]
    /\ outcome' = "ok"
    /\ pc' = "computed"
    /\ UNCHANGED <<scenario, cx2, ontology, nodesFile, edgesFile, interactome, other,
                   files, call, edgelist, alts, stack>>

NextDiff ==
    \/ DiffRefNode
    \/ DiffAlt
    \/ DiffAltNode
    \/ CallCalculateJaccard
    \/ CallCompareHierarchies
    \/ CallComputeHierarchyRobustness

SpecDiff == InitDiff /\ [][NextDiff]_vars

-----------------------------------------------------------------------------
(* HierarchyToHiDeFConverter (hidefconverter.py) and InteractomeToDDOTConverter *)
(* (ddotconverter.py): the exports of a loaded CX2 network                      *)


(* _find_node_name_by_id *)
FindNodeNameById(h, node_id) == GetAttrOr(GetNode(h, node_id), "name", StrOfId(node_id))

(* Faulty variant: the row is left without its persistence when the node has none *)
FormatNodeShort(h, node_id) ==
    LET node_attr == GetNode(h, node_id)
        head == <<GetAttrOr(node_attr, "name", StrOfId(node_id)),
                  GetAttrOr(node_attr, "CD_MemberList_Size", StrOfId(0)),
                  GetAttrOr(node_attr, "CD_MemberList", <<>>)>>
    IN  JoinWith(TAB, IF "HiDeF_persistence" \in DOMAIN node_attr
                      THEN Append(head, node_attr["HiDeF_persistence"]) ELSE head)

(* _format_node: "\t".join(map(str, formatted_node)) *)
FormatNode(h, node_id) ==
    LET node_attr == GetNode(h, node_id)
        formatted_node == <<GetAttrOr(node_attr, "name", StrOfId(node_id)),
                            GetAttrOr(node_attr, "CD_MemberList_Size", StrOfId(0)),
                            GetAttrOr(node_attr, "CD_MemberList", <<>>),
                            GetAttrOr(node_attr, "HiDeF_persistence", StrOfId(0))>>
    IN  JoinWith(TAB, formatted_node)

(* _format_edge of the edge at position edge_index *)
FormatEdge(h, edge_index) ==
    FindNodeNameById(h, h.edges[edge_index].s) \o <<TAB>>
        \o FindNodeNameById(h, h.edges[edge_index].t) \o <<TAB, "default">>

(* _write_to_file: the text of the file, '\n'.join(lines) *)
WriteToFile(lines) == JoinWith(NL, lines)

(* generate_hidef_files: get_node of a node the network does not hold is None, *)
(* the subscript on it raises and the method turns that into CellMapsError     *)
GenerateHidefFiles(h) ==
    IF \E i \in 1..Len(h.edges) : h.edges[i].s \notin NodeIds(h) \/ h.edges[i].t \notin NodeIds(h)
    THEN [status |-> "CellMapsError", nodes_file |-> <<>>, edges_file |-> <<>>, written |-> {}]
    ELSE [status |-> "ok",
          nodes_file |-> WriteToFile([i \in 1..Len(h.nodes) |-> FormatNode(h, i - 1)]),
          edges_file |-> WriteToFile([i \in 1..Len(h.edges) |-> FormatEdge(h, i)]),
          written |-> {<<"hidef_output_gene_names.nodes">>, <<"hidef_output_gene_names.edges">>}]

(* InteractomeToDDOTConverter.generate_ddot_format_file: the lines written *)
GenerateDdotFormatFile(inter) ==
    [i \in 1..Len(inter.edges) |->
        LET source == inter.edges[i].s
            target == inter.edges[i].t
        IN  IF "interaction" \in DOMAIN inter.edges[i].v
            THEN StrOfId(source) \o <<TAB>> \o StrOfId(target) \o <<TAB>>
                     \o inter.edges[i].v["interaction"] \o <<NL>>
            ELSE StrOfId(source) \o <<TAB>> \o StrOfId(target) \o <<NL>>]

(* Nodes of a hierarchy file: every attribute the export reads may be missing *)
ExportNodeAttrs ==
    { EmptyAttrs,
      SetAttr(EmptyAttrs, "name", <<"A">>),
      ("name" :> <<"B">>) @@ ("CD_MemberList" :> <<>>),
      ("name" :> <<"B">>) @@ ("CD_MemberList_Size" :> <<"2">>)
          @@ ("CD_MemberList" :> <<"g1", SPACE, "g2">>) @@ ("HiDeF_persistence" :> <<"5">>) }

ExportGenes == {<<"g1">>, <<"g2">>, <<"g3">>}

NoExport == [status |-> "none", net |-> EmptyNetwork, lines |-> <<>>,
             nodes_file |-> <<>>, edges_file |-> <<>>]

InitExport ==
    /\ scenario \in {"export_hierarchy", "export_interactome"}
    /\ pc = "input"
    /\ interactome = EmptyNetwork
    /\ cx2 = EmptyNetwork
    /\ ontology = <<>>
    /\ nodesFile = <<>>
    /\ edgesFile = <<>>
    /\ hierarchy = EmptyNetwork
    /\ other = NoExport
    /\ outcome = "none"
    /\ files = {}
    /\ call = NoCall
    /\ edgelist = <<>>
    /\ alts = <<>>
    /\ diff = NoDiff
    /\ stack = <<>>

(* The hierarchy in the CX2 file: its next node, then its next edge; an edge may *)
(* name a target the file has no node for                                        *)
ExportNode ==
    /\ pc = "input"
    /\ scenario = "export_hierarchy"
    /\ cx2.edges = <<>>
    /\ Len(cx2.nodes) < MaxExportNodes
    /\ \E attrs \in ExportNodeAttrs : cx2' = AddNode(cx2, attrs)
    /\ UNCHANGED <<scenario, pc, ontology, nodesFile, edgesFile, interactome, hierarchy,
                   other, outcome, files, call, edgelist, alts, diff, stack>>

ExportEdge ==
    /\ pc = "input"
    /\ scenario = "export_hierarchy"
    /\ Len(cx2.edges) < MaxEdges
    /\ \E source \in NodeIds(cx2), target \in NodeIds(cx2) \cup {Len(cx2.nodes)} :
          cx2' = AddEdge(cx2, source, target)
    /\ UNCHANGED <<scenario, pc, ontology, nodesFile, edgesFile, interactome, hierarchy,
                   other, outcome, files, call, edgelist, alts, diff, stack>>

(* The interactome in the CX2 file: its next edge between named genes, with or *)
(* without an interaction                                                      *)
ExportInteraction ==
    /\ pc = "input"
    /\ scenario = "export_interactome"
    /\ Len(interactome.edges) < MaxEdges
    /\ \E source \in ExportGenes, target \in ExportGenes, labelled \in BOOLEAN :
          LET net == InteractomeLine(interactome, <<source, target>>) IN
          /\ Len(net.nodes) <= MaxExportNodes
          /\ interactome' = IF labelled
                            THEN AddEdgeAttribute(net, Len(net.edges), "interaction",
                                                  <<"binds">>)
                            ELSE net
    /\ UNCHANGED <<scenario, pc, cx2, ontology, nodesFile, edgesFile, hierarchy,
                   other, outcome, files, call, edgelist, alts, diff, stack>>

(* HierarchyToHiDeFConverter.generate_hidef_files *)
CallGenerateHidefFiles ==
    /\ pc = "input"
    /\ scenario = "export_hierarchy"
    /\ LET res == GenerateHidefFiles(cx2) IN
          /\ other' = [NoExport EXCEPT !.status = res.status, !.net = cx2,
                                       !.nodes_file = res.nodes_file,
                                       !.edges_file = res.edges_file]
          /\ outcome' = res.status
          /\ files' = files \cup res.written
    /\ pc' = "exported"
    /\ UNCHANGED <<scenario, cx2, ontology, nodesFile, edgesFile, interactome, hierarchy,
                   call, edgelist, alts, diff, stack>>

(* InteractomeToDDOTConverter.generate_ddot_format_file *)
CallGenerateDdotFormatFile ==
    /\ pc = "input"
    /\ scenario = "export_interactome"
    /\ other' = [NoExport EXCEPT !.status = "ok", !.net = interactome,
                                 !.lines = GenerateDdotFormatFile(interactome)]
    /\ outcome' = "ok"
    /\ files' = files \cup {<<"interactome_ddot.txt">>}
    /\ pc' = "exported"
    /\ UNCHANGED <<scenario, cx2, ontology, nodesFile, edgesFile, interactome, hierarchy,
                   call, edgelist, alts, diff, stack>>

NextExport ==
    \/ ExportNode
    \/ ExportEdge
    \/ ExportInteraction
    \/ CallGenerateHidefFiles
    \/ CallGenerateDdotFormatFile

SpecExport == InitExport /\ [][NextExport]_vars

-----------------------------------------------------------------------------
(* DDOTToHierarchyConverter._get_hierarchy, one line of the ontology file at a time *)

DispatchClusters == {<<"A">>, <<"B">>}

(* Type fields: GENE_set is the two symbols GENE and _set *)
DispatchStructuralTypes == {<<"default">>, <<"is_a">>}

DispatchGeneTypes == {<<"gene">>, <<"Gene">>, <<"GENE", "_set">>}

DispatchLines ==
    {TextLine(<<s, t, type>>) : s \in DispatchClusters, t \in DispatchClusters,
                                type \in DispatchStructuralTypes}
        \cup {TextLine(<<c, <<"g1">>, type>>) : c \in DispatchClusters,
                                                 type \in DispatchGeneTypes}
        \cup {<<NL>>}

InitLines ==
    /\ scenario = "ddot_lines"
    /\ pc = "reading"
    /\ interactome \in Interactomes
    /\ cx2 = EmptyNetwork
    /\ ontology = <<>>
    /\ nodesFile = <<>>
    /\ edgesFile = <<>>
    /\ hierarchy = EmptyNetwork
    /\ other = NoResult
    /\ outcome = "none"
    /\ files = {}
    /\ call = NoCall
    /\ edgelist = <<>>
    /\ alts = <<>>
    /\ diff = NoDiff
    /\ stack = <<>>

(* One iteration of `for line in f`: other.net keeps the hierarchy as the *)
(* iteration found it                                                     *)
LinesReadLine ==
    /\ pc = "reading"
    /\ scenario = "ddot_lines"
    /\ Len(ontology) < MaxLines
    /\ \E line \in DispatchLines :
          LET parts == SplitOn(Strip(line), TAB) IN
          /\ ontology' = Append(ontology, line)
          /\ call' = [op |-> "line", n |-> Len(ontology) + 1, parts |-> parts]
          /\ IF Len(parts) # 3
             THEN /\ hierarchy' = hierarchy
                  /\ other' = [status |-> "ValueError", net |-> hierarchy, lines |-> <<>>]
                  /\ outcome' = "ValueError"
                  /\ pc' = "failed"
             ELSE /\ hierarchy' = HierarchyLine(hierarchy, interactome, parts)
                  /\ other' = [status |-> "ok", net |-> hierarchy, lines |-> <<>>]
                  /\ outcome' = outcome
                  /\ pc' = pc
    /\ UNCHANGED <<scenario, cx2, nodesFile, edgesFile, interactome, files, edgelist, alts,
                   diff, stack>>

(* The end of the file: _update_memberlist, get_root_nodes, add_isroot_node_attribute *)
LinesEndOfFile ==
    /\ pc = "reading"
    /\ scenario = "ddot_lines"
    /\ \E gene_order \in GeneOrders(hierarchy), id_order \in IdOrders(hierarchy, interactome) :
          LET res == FinishHierarchy([status |-> "ok", net |-> hierarchy], interactome,
                                     gene_order, id_order)
          IN  /\ hierarchy' = res.net
              /\ outcome' = res.status
    /\ pc' = "converted"
    /\ UNCHANGED <<scenario, cx2, ontology, nodesFile, edgesFile, interactome, other, files,
                   call, edgelist, alts, diff, stack>>

NextLines == LinesReadLine \/ LinesEndOfFile

SpecLines == InitLines /\ [][NextLines]_vars

-----------------------------------------------------------------------------
(* DDOTToHierarchyConverter._update_memberlist and _get_children_of_node, step by *)
(* step: stack holds the frames of _get_children_of_node, the innermost last      *)

(* A call of _get_children_of_node: child_set = set(), the edge loop at its start *)
NewFrame(node_id) == [node_id |-> node_id, i |-> 1, child_set |-> {}]

(* Faulty variant: the guard looks at every node reached by any frame of the stack *)
VisitedGuardAllFrames(stk) ==
    UNION {stk[k].child_set \cup {stk[k].node_id} : k \in 1..Len(stk)}

(* edge_obj[EDGE_TARGET] not in child_set: the set of the running call only *)
VisitedGuard(stk) == stk[Len(stk)].child_set

(* Faulty variant: the result of the recursive call is dropped *)
ReturnIntoDiscarding(caller, child_set) == [caller EXCEPT !.i = @ + 1]

(* child_set.update(<result of the recursive call>), then the next edge *)
ReturnInto(caller, child_set) ==
    [caller EXCEPT !.child_set = @ \cup child_set, !.i = @ + 1]

InitTraverse == Blank("traverse")

(* The next structural line of the ontology, read as _get_hierarchy reads it *)
TravLine ==
    /\ pc = "input"
    /\ scenario = "traverse"
    /\ Len(ontology) < MaxTravEdges
    /\ \E line \in StructuralLines :
          /\ ontology' = Append(ontology, line)
          /\ hierarchy' = HierarchyLine(hierarchy, interactome, SplitOn(Strip(line), TAB))
    /\ UNCHANGED <<scenario, pc, cx2, nodesFile, edgesFile, interactome, other, outcome,
                   files, call, edgelist, alts, diff, stack>>

(* _update_memberlist is entered: the node loop calls _get_children_of_node on *)
(* the first node                                                             *)
TravStart ==
    /\ pc = "input"
    /\ scenario = "traverse"
    /\ call' = [op |-> "_update_memberlist", n |-> 0, results |-> <<>>]
    /\ IF hierarchy.nodes = <<>>
       THEN /\ pc' = "updated"
            /\ outcome' = "ok"
            /\ stack' = <<>>
       ELSE /\ pc' = "traversing"
            /\ outcome' = outcome
            /\ stack' = <<NewFrame(0)>>
    /\ UNCHANGED <<scenario, cx2, ontology, nodesFile, edgesFile, interactome, hierarchy,
                   other, files, edgelist, alts, diff>>

(* One iteration of the edge loop of the innermost call: the edge is skipped, or *)
(* its target is added and a recursive call entered; a call the stack has no     *)
(* frame left for ends the conversion with RecursionError                        *)
TravEdge ==
    /\ pc = "traversing"
    /\ scenario = "traverse"
    /\ LET top == stack[Len(stack)] IN
       /\ top.i <= Len(hierarchy.edges)
       /\ LET edge_obj == hierarchy.edges[top.i] IN
          IF edge_obj.s = top.node_id /\ edge_obj.t \notin VisitedGuard(stack)
          THEN IF Len(stack) = MaxDepth
               THEN /\ pc' = "failed"
                    /\ outcome' = "RecursionError"
                    /\ stack' = stack
               ELSE /\ pc' = pc
                    /\ outcome' = outcome
                    /\ stack' = Append([stack EXCEPT ![Len(stack)].child_set =
                                                         @ \cup {edge_obj.t}],
                                       NewFrame(edge_obj.t))
          ELSE /\ pc' = pc
               /\ outcome' = outcome
               /\ stack' = [stack EXCEPT ![Len(stack)].i = @ + 1]
    /\ UNCHANGED <<scenario, cx2, ontology, nodesFile, edgesFile, interactome, hierarchy,
                   other, files, call, edgelist, alts, diff>>

(* return child_set of a recursive call *)
TravReturn ==
    /\ pc = "traversing"
    /\ scenario = "traverse"
    /\ Len(stack) > 1
    /\ stack[Len(stack)].i > Len(hierarchy.edges)
    /\ stack' = Append(SubSeq(stack, 1, Len(stack) - 2),
                       ReturnInto(stack[Len(stack) - 1], stack[Len(stack)].child_set))
    /\ UNCHANGED <<scenario, pc, cx2, ontology, nodesFile, edgesFile, interactome,
                   hierarchy, other, outcome, files, call, edgelist, alts, diff>>

(* return child_set to _update_memberlist: the node's member lists are written *)
(* and the node loop goes on to the next node                                  *)
TravNodeDone ==
    /\ pc = "traversing"
    /\ scenario = "traverse"
    /\ Len(stack) = 1
    /\ stack[1].i > Len(hierarchy.edges)
    /\ \E gene_order \in GeneOrders(hierarchy), id_order \in IdOrders(hierarchy, interactome) :
          LET children_nodes == stack[1].child_set \cup {call.n}
              lists == GetMemberlistsFromNodes(hierarchy, interactome, children_nodes,
                                               gene_order, id_order)
          IN  hierarchy' = AddNodeAttribute(
                               AddNodeAttribute(hierarchy, call.n, "CD_MemberList",
                                                JoinWith(SPACE, lists.member_list)),
                               call.n, "HCX::members", lists.member_ids)
    /\ IF call.n + 1 < Len(hierarchy.nodes)
       THEN /\ call' = [call EXCEPT !.n = @ + 1,
                                    !.results = Append(@, stack[1].child_set)]
            /\ stack' = <<NewFrame(call.n + 1)>>
            /\ pc' = pc
            /\ outcome' = outcome
       ELSE /\ call' = [call EXCEPT !.results = Append(@, stack[1].child_set)]
            /\ stack' = <<>>
            /\ pc' = "updated"
            /\ outcome' = "ok"
    /\ UNCHANGED <<scenario, cx2, ontology, nodesFile, edgesFile, interactome, other,
                   files, edgelist, alts, diff>>

NextTraverse == TravLine \/ TravStart \/ TravEdge \/ TravReturn \/ TravNodeDone

SpecTraverse == InitTraverse /\ [][NextTraverse]_vars

(* The interpreter keeps running the call it is in *)
SpecTraverseFair == SpecTraverse /\ WF_vars(TravEdge \/ TravReturn \/ TravNodeDone)

-----------------------------------------------------------------------------
(* NDExHierarchyUploader._save_network (ndexupload.py) *)

(* ndexuuid = res[res.rfind('/') + 1:] *)
AfterLastSlash(res) == LET parts == SplitOn(res, "/") IN parts[Len(parts)]

(* res.replace('v3', 'viewer') *)
ReplaceV3(res) == [k \in 1..Len(res) |-> IF res[k] = "v3" THEN "viewer" ELSE res[k]]

(* What save_new_cx2_network does on one attempt: it returns a str or something *)
(* else, or raises a RequestException, with or without a response attached (a   *)
(* connection that failed has none), or another exception                       *)
ClientAnswers ==
    { [kind |-> "str", value |-> NetworkUrl(<<"https://">>)],
      [kind |-> "str", value |-> <<"uuid1">>],
      [kind |-> "not_str", value |-> NoneStr],
      [kind |-> "RequestException", value |-> <<"response">>],
      [kind |-> "RequestException", value |-> NoneStr],
      [kind |-> "Exception", value |-> NoneStr] }

RetryWaits == {0, 10}

(* The state of a call of _save_network as the while loop is entered *)
SaveNetworkEntered(max_retries, retry_wait) ==
    [op |-> "_save_network", n |-> 1, max_retries |-> max_retries,
     retry_wait |-> retry_wait, retry_num |-> 1, attempts |-> 0, answers |-> <<>>,
     slept |-> 0, result |-> <<>>]

(* One pass of the while loop body on the client's answer: where the call stands *)
(* after it                                                                      *)
SaveNetworkAttempt(c, answer) ==
    LET tried == [c EXCEPT !.attempts = @ + 1, !.answers = Append(@, answer)] IN
    CASE answer.kind = "str" ->
             [pc |-> "returned", outcome |-> "ok",
              call |-> [tried EXCEPT !.result = <<AfterLastSlash(answer.value),
                                                  ReplaceV3(answer.value)>>]]
      [] answer.kind = "not_str" ->
             [pc |-> "raised", outcome |-> "CellMapsError", call |-> tried]
      [] answer.kind = "Exception" ->
             [pc |-> "raised", outcome |-> "CellMapsError", call |-> tried]
      [] answer.kind = "RequestException" ->
             IF c.retry_num = c.max_retries
             THEN [pc |-> "raised", outcome |-> "CellMapsError", call |-> tried]
             ELSE IF answer.value = NoneStr
             THEN [pc |-> "raised", outcome |-> "AttributeError", call |-> tried]
             ELSE [pc |-> "saving", outcome |-> "none",
                   call |-> [tried EXCEPT !.retry_num = @ + 1,
                                          !.slept = @ + c.retry_wait]]

InitSave ==
    /\ scenario = "save"
    /\ pc = "new"
    /\ interactome = EmptyNetwork
    /\ cx2 = EmptyNetwork
    /\ ontology = <<>>
    /\ nodesFile = <<>>
    /\ edgesFile = <<>>
    /\ hierarchy = EmptyNetwork
    /\ other = NoResult
    /\ outcome = "none"
    /\ files = {}
    /\ call = NoCall
    /\ edgelist = <<>>
    /\ alts = <<>>
    /\ diff = NoDiff
    /\ stack = <<>>

(* _save_network is called: retry_num = 1 and the first test of the while loop; *)
(* a loop that is never entered falls through to the end of the method, which   *)
(* returns None                                                                 *)
SaveCall ==
    /\ pc = "new"
    /\ scenario = "save"
    /\ \E max_retries \in 0..MaxRetries, retry_wait \in RetryWaits :
          /\ call' = SaveNetworkEntered(max_retries, retry_wait)
          /\ IF 1 <= max_retries
             THEN pc' = "saving" /\ outcome' = outcome
             ELSE pc' = "returned" /\ outcome' = "None"
    /\ UNCHANGED <<scenario, cx2, ontology, nodesFile, edgesFile, interactome, hierarchy,
                   other, files, edgelist, alts, diff, stack>>

(* One save attempt and what the method does with the client's answer *)
SaveAttempt ==
    /\ pc = "saving"
    /\ scenario = "save"
    /\ \E answer \in ClientAnswers :
          LET after == SaveNetworkAttempt(call, answer) IN
          /\ call' = after.call
          /\ pc' = after.pc
          /\ outcome' = after.outcome
    /\ UNCHANGED <<scenario, cx2, ontology, nodesFile, edgesFile, interactome, hierarchy,
                   other, files, edgelist, alts, diff, stack>>

NextSave == SaveCall \/ SaveAttempt

SpecSave == InitSave /\ [][NextSave]_vars

-----------------------------------------------------------------------------
(* Vocabulary of the properties *)

Fields(line) == SplitOn(Strip(line), TAB)

NameOf(h, node_id) == GetNode(h, node_id)["name"]

(* The gene tokens of a node's CD_MemberList, as the converters tokenize it *)
(* (split on one space); an absent or empty member list has no token        *)
MemberTokenList(attrs) ==
    IF "CD_MemberList" \notin DOMAIN attrs \/ attrs["CD_MemberList"] = <<>> THEN <<>>
    ELSE SplitOn(attrs["CD_MemberList"], SPACE)

MemberTokens(attrs) == Range(MemberTokenList(attrs))

NoDuplicates(seq) == \A i \in 1..Len(seq), j \in 1..Len(seq) : seq[i] = seq[j] => i = j

RECURSIVE ReachableFrom(_, _)
ReachableFrom(h, S) ==
    LET next == S \cup {h.edges[i].t : i \in {j \in 1..Len(h.edges) : h.edges[j].s \in S}}
    IN  IF next = S THEN S ELSE ReachableFrom(h, next)

(* The proper descendants of a node: what its out-edges reach *)
Descendants(h, node_id) ==
    ReachableFrom(h, {h.edges[i].t : i \in {j \in 1..Len(h.edges) : h.edges[j].s = node_id}})

Acyclic(h) == \A n \in NodeIds(h) : n \notin Descendants(h, n)

(* The genes the lines assign to the cluster called name: the targets of its gene *)
(* lines that come after a structural line naming the cluster                     *)
AssignedGenes(lines, name) ==
    {Fields(lines[i])[2] :
        i \in {k \in 1..Len(lines) :
                 /\ IsGeneType(Fields(lines[k])[3])
                 /\ Fields(lines[k])[1] = name
                 /\ \E j \in 1..(k - 1) :
                       /\ ~IsGeneType(Fields(lines[j])[3])
                       /\ name \in {Fields(lines[j])[1], Fields(lines[j])[2]}}}

StructuralEdges(h) ==
    {<<NameOf(h, h.edges[i].s), NameOf(h, h.edges[i].t)>> : i \in 1..Len(h.edges)}

NamedMemberSets(h) == {<<h.nodes[i]["name"], MemberTokens(h.nodes[i])>> : i \in 1..Len(h.nodes)}

MemberIds(attrs) == Range(GetAttrOr(attrs, "HCX::members", <<>>))

InDegree(h, node_id) == Cardinality({i \in 1..Len(h.edges) : h.edges[i].t = node_id})

DdotConverted == scenario = "ddot" /\ pc = "converted" /\ outcome = "ok"

-----------------------------------------------------------------------------
(* C1: after DDOT ontology -> Hierarchy, the gene tokens of every node's        *)
(* CD_MemberList are exactly the genes assigned to the node and to its          *)
(* descendants: none missing, none twice, and no token that was never assigned. *)
C1_MemberListIsDescendantUnion ==
    DdotConverted =>
        \A n \in NodeIds(hierarchy) :
            LET tokens == MemberTokenList(GetNode(hierarchy, n)) IN
            /\ NoDuplicates(tokens)
            /\ Range(tokens) =
                   UNION {AssignedGenes(ontology, NameOf(hierarchy, d)) :
                             d \in {n} \cup Descendants(hierarchy, n)}

(* C2: DDOT ontology -> Hierarchy does not depend on the order of the lines: a  *)
(* permutation of the file converts to the same structural edges and the same   *)
(* gene set per node name.                                                      *)
C2_LineOrderIndependent ==
    (scenario = "ddot" /\ pc = "permuted") =>
        /\ other.status = outcome
        /\ outcome = "ok" =>
              /\ StructuralEdges(other.net) = StructuralEdges(hierarchy)
              /\ NamedMemberSets(other.net) = NamedMemberSets(hierarchy)

(* C3: writing a hierarchy without duplicate gene assignments as a DDOT ontology *)
(* and reading the file back yields the same structural edges and, for every     *)
(* node of the hierarchy, a node of that name with the same gene set.            *)
C3_RoundTrip ==
    (/\ scenario = "roundtrip"
     /\ pc = "converted"
     /\ Acyclic(cx2)
     /\ \A n \in NodeIds(cx2) :
           /\ NoDuplicates(MemberTokenList(GetNode(cx2, n)))
           /\ \A tok \in MemberTokens(GetNode(cx2, n)) :
                 LookupNodeIdByName(interactome, tok) # None)
    => /\ outcome = "ok"
       /\ StructuralEdges(hierarchy) = StructuralEdges(cx2)
       /\ NamedMemberSets(cx2) \subseteq NamedMemberSets(hierarchy)

(* C4: _update_memberlist is idempotent: a second run right after the first      *)
(* leaves every node's gene set and HCX::members id set as the first run left it. *)
C4_UpdateMemberlistIdempotent ==
    [][UpdateMemberlistAgain =>
          /\ outcome' = "ok"
          /\ \A n \in NodeIds(hierarchy) :
                /\ MemberTokens(GetNode(hierarchy', n)) = MemberTokens(GetNode(hierarchy, n))
                /\ MemberIds(GetNode(hierarchy', n)) = MemberIds(GetNode(hierarchy, n))]_vars

-----------------------------------------------------------------------------
Converted == pc = "converted" /\ outcome = "ok"

IsRootOf(h, node_id) ==
    "HCX::isRoot" \in DOMAIN GetNode(h, node_id) /\ GetNode(h, node_id)["HCX::isRoot"]

StampedRoots(h) == {n \in NodeIds(h) : IsRootOf(h, n)}

(* The root set the converter of the scenario computes on h *)
RootNodesOf(h) == IF scenario = "hidef" THEN HidefGetRootNodes(h) ELSE GetRootNodes(h)

(* C5: get_root_nodes is the set of nodes no edge targets, and after DDOT ->      *)
(* Hierarchy, HiDeF -> Hierarchy or convert_hierarchical_network_to_hcx every node *)
(* carries HCX::isRoot, True iff the node has in-degree 0.                         *)
C5_IsRootIffNoIncomingEdge ==
    Converted =>
        /\ RootNodesOf(hierarchy) = {n \in NodeIds(hierarchy) : InDegree(hierarchy, n) = 0}
        /\ \A n \in NodeIds(hierarchy) :
              /\ "HCX::isRoot" \in DOMAIN GetNode(hierarchy, n)
              /\ GetNode(hierarchy, n)["HCX::isRoot"] = (InDegree(hierarchy, n) = 0)

C5_Witness ==
    /\ Converted
    /\ Len(hierarchy.edges) >= 2
    /\ \E n \in NodeIds(hierarchy), m \in NodeIds(hierarchy) :
          /\ IsRootOf(hierarchy, n) /\ InDegree(hierarchy, n) = 0
          /\ ~IsRootOf(hierarchy, m) /\ InDegree(hierarchy, m) > 0

(* C6: every hierarchy with at least one node that DDOT -> Hierarchy or HiDeF ->  *)
(* Hierarchy returns has a node stamped HCX::isRoot = True.                       *)
C6_RootSetNonEmpty ==
    (Converted /\ scenario \in {"ddot", "hidef"} /\ hierarchy.nodes # <<>>)
        => StampedRoots(hierarchy) # {}

(* The edges of h form one tree over all the nodes of h, rooted at root *)
IsRootedTree(h, root) ==
    /\ root \in NodeIds(h)
    /\ Len(h.edges) = Len(h.nodes) - 1
    /\ {root} \cup Descendants(h, root) = NodeIds(h)

(* C7: on a hierarchy whose edges form a single rooted tree over all its nodes, *)
(* get_root_nodes returns exactly one node, the root of the tree.               *)
C7_TreeHasOneRoot ==
    Converted =>
        \A root \in NodeIds(hierarchy) :
            IsRootedTree(hierarchy, root) =>
                /\ RootNodesOf(hierarchy) = {root}
                /\ StampedRoots(hierarchy) = {root}

C7_Witness ==
    /\ Converted
    /\ scenario # "hidef"
    /\ Len(hierarchy.nodes) = 3
    /\ \E root \in NodeIds(hierarchy) :
          IsRootedTree(hierarchy, root) /\ StampedRoots(hierarchy) = {root}

(* C8: in every produced hierarchy each node's HCX::members holds only ids of *)
(* interactome nodes whose name is a gene token of the node's CD_MemberList;  *)
(* an unresolved name leaves no entry (no None placeholder).                  *)
C8_MembersAreResolvedIds ==
    Converted =>
        \A n \in NodeIds(hierarchy) :
            \A id \in MemberIds(GetNode(hierarchy, n)) :
                /\ id # None
                /\ id \in NodeIds(interactome)
                /\ NameOf(interactome, id) \in MemberTokens(GetNode(hierarchy, n))

(* C9: after any sequence of annotation operations the network attributes of the *)
(* hierarchy never hold both HCX::interactionNetworkUUID and                     *)
(* HCX::interactionNetworkName.                                                  *)
C9_LinkageExclusive ==
    ~({"HCX::interactionNetworkUUID", "HCX::interactionNetworkName"}
          \subseteq DOMAIN hierarchy.net)

IsAddCall(c) == c.op = "add_hcx_network_annotations"

BothForms(c) == IsAddCall(c) /\ Truthy(c.host) /\ Truthy(c.uuid) /\ c.has_interactome

NeitherForm(c) == IsAddCall(c) /\ c.uuid = NoneStr /\ ~c.has_interactome

HasNetAttr(h, key) == key \in DOMAIN h.net

-----------------------------------------------------------------------------
IsHierarchyConstructor(c) ==
    c.op \in {"DDOTToHierarchyConverter", "HiDeFToHierarchyConverter"}

RemoteGiven(c) == c.parent_ndex_url # NoneStr \/ c.parent_uuid # NoneStr

LocalGiven(c) == c.parent_edgelist # NoneStr

(* C11: constructing DDOTToHierarchyConverter or HiDeFToHierarchyConverter with *)
(* both a remote and a local parent interactome, or with neither, fails with    *)
(* CellMapsError in the constructor, before any file is read or written.        *)
C11_SourceConflictRejected ==
    (IsHierarchyConstructor(call) /\ RemoteGiven(call) = LocalGiven(call))
        => /\ call.status = "CellMapsError"
           /\ pc = "failed"
           /\ files = {}

(* The tab-delimited fields of a line of a file, its line end taken off *)
TabFields(line) ==
    SplitOn(IF line # <<>> /\ line[Len(line)] = NL THEN SubSeq(line, 1, Len(line) - 1)
            ELSE line, TAB)

HasShortLine(lines, required) == \E i \in 1..Len(lines) : Len(TabFields(lines[i])) < required

(* The edge list file is read by the conversion of the scenario *)
EdgelistRead ==
    \/ scenario = "interactome_file"
    \/ scenario = "ddot_files" /\ call.parent_edgelist # NoneStr
    \/ scenario = "hidef_files" /\ call.parent_ndex_url = NoneStr

MalformedInput ==
    \/ EdgelistRead /\ HasShortLine(edgelist, 2)
    \/ scenario = "ddot_files" /\ HasShortLine(ontology, 3)
    \/ scenario = "hidef_files" /\ (HasShortLine(nodesFile, 4) \/ HasShortLine(edgesFile, 3))

(* C12: when a line of the ontology file, of the edge list file, of the .nodes  *)
(* file or of the .edges file has fewer tab-delimited fields than required (3,  *)
(* 2, 4, 3), the conversion raises an error, returns no network and writes no   *)
(* file.                                                                        *)
C12_MalformedInputFails ==
    (pc = "generated" /\ MalformedInput)
        => /\ outcome # "ok"
           /\ hierarchy = EmptyNetwork
           /\ files = {}

DistinctNames(net) ==
    \A i \in 1..Len(net.nodes), j \in 1..Len(net.nodes) :
        net.nodes[i]["name"] = net.nodes[j]["name"] => i = j

(* C14: in every network built by parsing a file (interactome from an edge list, *)
(* hierarchy from a DDOT ontology, hierarchy from HiDeF files) the nodes have    *)
(* pairwise distinct names.                                                      *)
C14_NoNodeTwice ==
    (pc = "generated" /\ outcome = "ok")
        => DistinctNames(interactome) /\ DistinctNames(hierarchy)

(* C20: DDOT -> Interactome: when every line has two or three tab-separated      *)
(* fields, generate_interactome_file succeeds; the edge of a line with three     *)
(* fields carries the third field as interaction, the edge of a line with two    *)
(* fields carries no interaction.                                                *)
C20_InteractionIsThirdField ==
    (/\ scenario = "interactome_file"
     /\ pc = "generated"
     /\ \A i \in 1..Len(edgelist) : Len(TabFields(edgelist[i])) \in {2, 3})
    => /\ outcome = "ok"
       /\ Len(interactome.edges) = Len(edgelist)
       /\ \A i \in 1..Len(edgelist) :
             IF Len(TabFields(edgelist[i])) = 3
             THEN /\ "interaction" \in DOMAIN interactome.edges[i].v
                  /\ interactome.edges[i].v["interaction"] = TabFields(edgelist[i])[3]
             ELSE "interaction" \notin DOMAIN interactome.edges[i].v

-----------------------------------------------------------------------------
(* The names the lines of the .nodes file give *)
NamesInNodesFile == {Fields(nodesFile[i])[1] : i \in 1..Len(nodesFile)}

EdgeResolves(line) ==
    Fields(line)[1] \in NamesInNodesFile /\ Fields(line)[2] \in NamesInNodesFile

(* The edges of h in insertion order, by the names of their endpoints *)
EdgeNamePairs(h) ==
    [i \in 1..Len(h.edges) |-> <<NameOf(h, h.edges[i].s), NameOf(h, h.edges[i].t)>>]

(* C13: HiDeF -> Hierarchy drops a .edges line whose source or target is not a   *)
(* node of the .nodes file without failing, keeps every other edge, and so every *)
(* edge of the hierarchy has both endpoints among the hierarchy's nodes.         *)
C13_UnresolvedEdgeDropped ==
    (scenario = "hidef" /\ pc = "converted")
        => /\ outcome = "ok"
           /\ LET kept == SelectSeq(edgesFile, EdgeResolves) IN
              EdgeNamePairs(hierarchy)
                  = [i \in 1..Len(kept) |-> <<Fields(kept[i])[1], Fields(kept[i])[2]>>]
           /\ \A i \in 1..Len(hierarchy.edges) :
                 /\ hierarchy.edges[i].s \in NodeIds(hierarchy)
                 /\ hierarchy.edges[i].t \in NodeIds(hierarchy)

C13_Witness ==
    /\ scenario = "hidef"
    /\ pc = "converted"
    /\ outcome = "ok"
    /\ Len(edgesFile) = 2
    /\ ~EdgeResolves(edgesFile[1])
    /\ EdgeResolves(edgesFile[2])
    /\ Len(hierarchy.edges) = 1

-----------------------------------------------------------------------------
(* The genes of a node's CD_MemberList: its tokens that are not empty *)
DiffGeneSet(attrs) ==
    {tok \in Range(SplitOn(GetAttrOr(attrs, "CD_MemberList", <<>>), SPACE)) : tok # <<>>}

(* |A n B| / |A u B| > t, the quotient taken as 0 when both sets are empty *)
JaccardAbove(setA, setB, t) ==
    LET union == Cardinality(setA \cup setB) IN
    IF union = 0 THEN 0 > t.num
    ELSE Cardinality(setA \cap setB) * t.den > t.num * union

RobustnessComputed ==
    scenario = "diff" /\ pc = "computed" /\ diff.op = "compute_hierarchy_robustness"

RobustnessOf(h, r) == h.nodes[r]["robustness"]

(* The alternatives with a node whose overlap with node r of the reference is *)
(* above the threshold                                                        *)
PassingAlts(r) ==
    {i \in 1..Len(alts) :
        \E a \in 1..Len(alts[i].nodes) :
            JaccardAbove(DiffGeneSet(alts[i].nodes[a]), DiffGeneSet(cx2.nodes[r]), diff.ji_thre)}

(* C15: with k >= 1 alternatives compute_hierarchy_robustness gives every node r *)
(* of the reference robustness = c/k, c the number of alternatives with a node   *)
(* whose Jaccard overlap with r is strictly above the threshold; the value is in *)
(* [0,1], also when an alternative has no node.                                  *)
C15_RobustnessIsPassingFraction ==
    (RobustnessComputed /\ Len(alts) >= 1)
        => \A r \in 1..Len(hierarchy.nodes) :
              LET value == RobustnessOf(hierarchy, r) IN
              /\ ~value.nan
              /\ value.int_min = 0
              /\ value.den = Len(alts)
              /\ value.num = Cardinality(PassingAlts(r))
              /\ 0 <= value.num /\ value.num <= value.den

IsOne(value) == ~value.nan /\ value.int_min = 0 /\ value.num = value.den

(* Every alternative has a node with the gene set of node r of the reference *)
EveryAltHasSameMembers(r) ==
    \A i \in 1..Len(alts) :
        \E a \in 1..Len(alts[i].nodes) :
            DiffGeneSet(alts[i].nodes[a]) = DiffGeneSet(cx2.nodes[r])

(* C16 as stated: for every threshold and every k >= 1 alternatives, a node of  *)
(* the reference whose gene set every alternative holds in one of its nodes has *)
(* robustness 1.                                                                *)
C16_IdenticalMembersRobust ==
    (RobustnessComputed /\ Len(alts) >= 1)
        => \A r \in 1..Len(hierarchy.nodes) :
              EveryAltHasSameMembers(r) => IsOne(RobustnessOf(hierarchy, r))

(* C16 amended: for a threshold below 1 and k >= 1 alternatives, a node of the *)
(* reference with a non-empty gene set that every alternative holds in one of  *)
(* its nodes has robustness 1.                                                 *)
C16_IdenticalNonEmptyMembersRobust ==
    (RobustnessComputed /\ Len(alts) >= 1 /\ FracGreater(Frac(1, 1), diff.ji_thre))
        => \A r \in 1..Len(hierarchy.nodes) :
              (DiffGeneSet(cx2.nodes[r]) # {} /\ EveryAltHasSameMembers(r))
                  => IsOne(RobustnessOf(hierarchy, r))

C16_Witness ==
    /\ RobustnessComputed
    /\ Len(alts) = 2
    /\ diff.ji_thre = Frac(2, 5)
    /\ \E r \in 1..Len(hierarchy.nodes) :
          /\ Cardinality(DiffGeneSet(cx2.nodes[r])) = 2
          /\ EveryAltHasSameMembers(r)
          /\ IsOne(RobustnessOf(hierarchy, r))

(* Two robustness values are the same number, or both NaN *)
SameValue(x, y) ==
    \/ x.nan /\ y.nan
    \/ /\ ~x.nan /\ ~y.nan
       /\ x.int_min = y.int_min
       /\ x.num * y.den = y.num * x.den

(* C17: compare_hierarchies(a, b, t) writes on every node of a the robustness *)
(* compute_hierarchy_robustness(a, [b], t) writes, also when b has no node or *)
(* a has nodes with empty member lists.                                       *)
C17_CompareIsSingleAlternative ==
    (RobustnessComputed /\ other.status = "ok")
        => \A r \in 1..Len(hierarchy.nodes) :
              SameValue(RobustnessOf(other.net, r), RobustnessOf(hierarchy, r))

JaccardCalled == scenario = "diff" /\ diff.op = "_calculate_jaccard"

(* C18: for non-empty sets A and B, _calculate_jaccard(A, B) is |A n B|/|A u B|, *)
(* lies in [0,1], is 1 for A = B, 0 for disjoint sets, the same for (B, A), and  *)
(* 1/3 for {g1,g2} and {g2,g3}.                                                  *)
C18_JaccardBounds ==
    (JaccardCalled /\ diff.setA # {} /\ diff.setB # {})
        => /\ diff.value.den > 0
           /\ diff.value.num * Cardinality(diff.setA \cup diff.setB)
                  = Cardinality(diff.setA \cap diff.setB) * diff.value.den
           /\ 0 <= diff.value.num /\ diff.value.num <= diff.value.den
           /\ diff.setA = diff.setB => diff.value.num = diff.value.den
           /\ diff.setA \cap diff.setB = {} => diff.value.num = 0
           /\ diff.value.num * diff.swapped.den = diff.swapped.num * diff.value.den
           /\ (diff.setA = {<<"g1">>, <<"g2">>} /\ diff.setB = {<<"g2">>, <<"g3">>})
                  => 3 * diff.value.num = diff.value.den

C18_Witness ==
    /\ JaccardCalled
    /\ diff.setA = {<<"g1">>, <<"g2">>}
    /\ diff.setB = {<<"g2">>, <<"g3">>}
    /\ 3 * diff.value.num = diff.value.den

(* A CD_MemberList that is absent, empty or holds only whitespace *)
BlankMembers(attrs) ==
    \/ "CD_MemberList" \notin DOMAIN attrs
    \/ \A k \in 1..Len(attrs["CD_MemberList"]) : attrs["CD_MemberList"][k] \in Whitespace

(* C19: _calculate_jaccard of two empty sets is 0, and in _hierarchy_overlap a  *)
(* node whose CD_MemberList is absent, empty or blank scores 0 against every    *)
(* node; no pair of nodes divides by zero.                                      *)
C19_EmptyScoresZero ==
    /\ (JaccardCalled /\ diff.setA = {} /\ diff.setB = {})
          => diff.value.num = 0 /\ diff.value.den > 0
    /\ (scenario = "diff" /\ diff.op \in {"compare_hierarchies", "compute_hierarchy_robustness"})
          => \A i \in 1..Len(alts) :
                \A a \in 1..Len(alts[i].nodes), r \in 1..Len(cx2.nodes) :
                    /\ diff.ji[i][a][r].den > 0
                    /\ (BlankMembers(alts[i].nodes[a]) \/ BlankMembers(cx2.nodes[r]))
                           => diff.ji[i][a][r].num = 0

C19_Witness ==
    /\ RobustnessComputed
    /\ \E i \in 1..Len(alts) :
          \E a \in 1..Len(alts[i].nodes), r \in 1..Len(cx2.nodes) :
              /\ alts[i].nodes[a] = EmptyAttrs
              /\ GetAttrOr(cx2.nodes[r], "CD_MemberList", <<>>) = <<SPACE>>
              /\ diff.ji[i][a][r].num = 0

-----------------------------------------------------------------------------
(* The distinct gene tokens of a node's CD_MemberList *)
DistinctGenes(attrs) == Range(SplitWhitespace(GetAttrOr(attrs, "CD_MemberList", <<>>)))

(* C30: in every hierarchy DDOT -> Hierarchy or HiDeF -> Hierarchy returns, each *)
(* node carries CD_MemberList_Size and it is the number of distinct gene tokens  *)
(* of the node's CD_MemberList.                                                  *)
C30_MemberListSizeIsCount ==
    (Converted /\ scenario \in {"ddot", "hidef"})
        => \A n \in NodeIds(hierarchy) :
              /\ "CD_MemberList_Size" \in DOMAIN GetNode(hierarchy, n)
              /\ GetNode(hierarchy, n)["CD_MemberList_Size"]
                     = StrOfId(Cardinality(DistinctGenes(GetNode(hierarchy, n))))

-----------------------------------------------------------------------------
(* generate_hierarchy_hcx_file of a DDOTToHierarchyConverter that was given the *)
(* url of its parent and no edge list has returned                              *)
RemoteOnlyGenerated ==
    /\ scenario = "ddot_files"
    /\ pc = "generated"
    /\ outcome = "ok"
    /\ call.parent_ndex_url # NoneStr
    /\ call.parent_edgelist = NoneStr

(* C29: a DDOTToHierarchyConverter constructed with parent_ndex_url and no        *)
(* parent_ddot_path stamps the remote linkage of that url (host and uuid) on the  *)
(* hierarchy; it never writes an interactome file and never stamps                *)
(* HCX::interactionNetworkName.                                                   *)
C29_RemoteParentStampsRemoteLinkage ==
    RemoteOnlyGenerated
        => LET hu == GetHostAndUuidFromNetworkUrl(call.parent_ndex_url) IN
           /\ "HCX::interactionNetworkHost" \in DOMAIN hierarchy.net
           /\ "HCX::interactionNetworkUUID" \in DOMAIN hierarchy.net
           /\ hierarchy.net["HCX::interactionNetworkHost"] = hu.host
           /\ hierarchy.net["HCX::interactionNetworkUUID"] = hu.uuid
           /\ "HCX::interactionNetworkName" \notin DOMAIN hierarchy.net
           /\ InteractomeName \notin files

-----------------------------------------------------------------------------
(* The genes of a member field: its runs of symbols between spaces *)
GenesOfField(field) == SelectSeq(SplitOn(field, SPACE), LAMBDA tok : tok # <<>>)

(* C24: HiDeF -> Hierarchy returns one node per .nodes line, in order, carrying  *)
(* the line's name, member count, member string and persistence, with            *)
(* HCX::members holding one interactome lookup per gene of the member string     *)
(* (None included) as set at node creation; the hierarchy has as many edges as   *)
(* .edges lines whose two names both resolve.                                    *)
C24_OneNodePerNodesLine ==
    (Converted /\ scenario = "hidef")
        => /\ Len(hierarchy.nodes) = Len(nodesFile)
           /\ \A i \in 1..Len(nodesFile) :
                 LET fields == Fields(nodesFile[i])
                     genes == GenesOfField(fields[3])
                     node == hierarchy.nodes[i]
                 IN  /\ node["name"] = fields[1]
                     /\ node["CD_MemberList_Size"] = fields[2]
                     /\ node["CD_MemberList"] = fields[3]
                     /\ node["HiDeF_persistence"] = fields[4]
                     /\ node["HCX::members"] =
                            [k \in 1..Len(genes) |-> LookupNodeIdByName(interactome, genes[k])]
           /\ Len(hierarchy.edges)
                  = Cardinality({i \in 1..Len(edgesFile) : EdgeResolves(edgesFile[i])})

C24_Witness ==
    /\ Converted
    /\ scenario = "hidef"
    /\ Len(hierarchy.nodes) = 2
    /\ Len(hierarchy.edges) = 1
    /\ \E n \in NodeIds(hierarchy) :
          /\ Len(GetNode(hierarchy, n)["HCX::members"]) = 2
          /\ None \in Range(GetNode(hierarchy, n)["HCX::members"])

-----------------------------------------------------------------------------
OntologyWritten == scenario = "roundtrip" /\ pc = "written"

(* The lines of the written ontology whose type field is type *)
LinesOfType(type) == {i \in 1..Len(ontology) : Fields(ontology[i])[3] = <<type>>}

(* C22: generate_ontology_ddot_file writes every default line before every gene *)
(* line, one parent<TAB>child<TAB>default line per edge of the hierarchy, and   *)
(* per node as many node<TAB>gene<TAB>gene lines as its CD_MemberList has gene  *)
(* tokens: none for an absent or empty CD_MemberList, and never a line with an  *)
(* empty gene field.                                                            *)
C22_TwoPassEmission ==
    OntologyWritten
        => /\ \A i \in LinesOfType("default"), j \in LinesOfType("gene") : i < j
           /\ LinesOfType("default") = 1..Len(cx2.edges)
           /\ \A i \in 1..Len(cx2.edges) :
                 /\ Fields(ontology[i])[1] = NameOf(cx2, cx2.edges[i].s)
                 /\ Fields(ontology[i])[2] = NameOf(cx2, cx2.edges[i].t)
           /\ \A n \in NodeIds(cx2) :
                 Cardinality({i \in LinesOfType("gene") :
                                 Fields(ontology[i])[1] = NameOf(cx2, n)})
                     = Len(MemberTokenList(GetNode(cx2, n)))
           /\ \A i \in LinesOfType("gene") : Fields(ontology[i])[2] # <<>>

-----------------------------------------------------------------------------
InteractomeExported == scenario = "export_interactome" /\ pc = "exported"

(* C21: generate_ddot_format_file writes one line per edge of the interactome, in *)
(* insertion order; its first two fields are the names of the edge's source and   *)
(* target nodes, and it has a third field, the interaction, iff the edge carries  *)
(* an interaction attribute.                                                      *)
C21_OneNamedLinePerEdge ==
    InteractomeExported
        => /\ Len(other.lines) = Len(interactome.edges)
           /\ \A i \in 1..Len(interactome.edges) :
                 LET fields == Fields(other.lines[i])
                     edge == interactome.edges[i]
                 IN  /\ fields[1] = NameOf(interactome, edge.s)
                     /\ fields[2] = NameOf(interactome, edge.t)
                     /\ IF "interaction" \in DOMAIN edge.v
                        THEN Len(fields) = 3 /\ fields[3] = edge.v["interaction"]
                        ELSE Len(fields) = 2

(* The rows of a written file *)
RowsOf(text) == IF text = <<>> THEN <<>> ELSE SplitOn(text, NL)

(* The value of an attribute as the export is to write it *)
WrittenAttr(attrs, key, default) == IF key \in DOMAIN attrs THEN attrs[key] ELSE default

WrittenName(h, node_id) == WrittenAttr(GetNode(h, node_id), "name", <<ToString(node_id)>>)

(* generate_hidef_files has run on a hierarchy whose edges all join nodes it holds *)
HierarchyExported ==
    /\ scenario = "export_hierarchy"
    /\ pc = "exported"
    /\ \A i \in 1..Len(cx2.edges) : {cx2.edges[i].s, cx2.edges[i].t} \subseteq NodeIds(cx2)

(* C23: generate_hidef_files writes one row name, CD_MemberList_Size,           *)
(* CD_MemberList, HiDeF_persistence per node and one row source name, target    *)
(* name, default per edge, in insertion order; a missing attribute is written   *)
(* as its default (size 0, empty member list, persistence 0, the node id for a  *)
(* missing name) and the export does not fail.                                  *)
C23_OneRowPerNodeAndEdge ==
    HierarchyExported
        => /\ outcome = "ok"
           /\ Len(RowsOf(other.nodes_file)) = Len(cx2.nodes)
           /\ \A i \in 1..Len(cx2.nodes) :
                 SplitOn(RowsOf(other.nodes_file)[i], TAB)
                     = <<WrittenName(cx2, i - 1),
                         WrittenAttr(cx2.nodes[i], "CD_MemberList_Size", <<"0">>),
                         WrittenAttr(cx2.nodes[i], "CD_MemberList", <<>>),
                         WrittenAttr(cx2.nodes[i], "HiDeF_persistence", <<"0">>)>>
           /\ Len(RowsOf(other.edges_file)) = Len(cx2.edges)
           /\ \A i \in 1..Len(cx2.edges) :
                 SplitOn(RowsOf(other.edges_file)[i], TAB)
                     = <<WrittenName(cx2, cx2.edges[i].s), WrittenName(cx2, cx2.edges[i].t),
                         <<"default">> >>

C23_Witness ==
    /\ HierarchyExported
    /\ outcome = "ok"
    /\ Len(cx2.nodes) = 2
    /\ cx2.nodes[1] = EmptyAttrs
    /\ Len(cx2.edges) = 2
    /\ Len(RowsOf(other.nodes_file)) = 2
    /\ Len(RowsOf(other.edges_file)) = 2

-----------------------------------------------------------------------------
(* The line loop of DDOT -> Hierarchy has just handled a well-formed line *)
LineRead == scenario = "ddot_lines" /\ pc = "reading" /\ call.op = "line"

(* The type field, lower-cased, contains gene *)
TypeNamesGene(edge_type) ==
    \E k \in 1..Len(edge_type) : edge_type[k] \in {"gene", "Gene", "GENE"}

NamesOf(h) == [i \in 1..Len(h.nodes) |-> h.nodes[i]["name"]]

(* C25: a line of the ontology is a gene line iff its type field, lower-cased,   *)
(* contains gene.  A gene line creates no node and no edge, and has no effect at *)
(* all when its cluster does not exist yet; a structural line leaves the nodes   *)
(* and edges it found alone, resolves or creates its two nodes by name and adds  *)
(* exactly one edge parent -> child.                                             *)
C25_LineDispatch ==
    LineRead
        => LET before == other.net
               source == call.parts[1]
               target == call.parts[2]
           IN  IF TypeNamesGene(call.parts[3])
               THEN /\ NamesOf(hierarchy) = NamesOf(before)
                    /\ hierarchy.edges = before.edges
                    /\ source \notin Range(NamesOf(before)) => hierarchy = before
               ELSE /\ SubSeq(hierarchy.nodes, 1, Len(before.nodes)) = before.nodes
                    /\ Range(NamesOf(hierarchy)) = Range(NamesOf(before)) \cup {source, target}
                    /\ NoDuplicates(NamesOf(hierarchy))
                    /\ Len(hierarchy.edges) = Len(before.edges) + 1
                    /\ SubSeq(hierarchy.edges, 1, Len(before.edges)) = before.edges
                    /\ LET edge == hierarchy.edges[Len(hierarchy.edges)] IN
                       /\ NameOf(hierarchy, edge.s) = source
                       /\ NameOf(hierarchy, edge.t) = target

C25_Witness ==
    /\ LineRead
    /\ call.parts[3] = <<"GENE", "_set">>
    /\ Len(other.net.nodes) = 1
    /\ call.parts[1] \notin Range(NamesOf(other.net))
    /\ hierarchy = other.net

-----------------------------------------------------------------------------
(* _update_memberlist has been entered on the hierarchy of the ontology *)
Traversal == scenario = "traverse" /\ call.op = "_update_memberlist"

(* Some node is reachable along two different paths *)
Reconverging(h) ==
    \E i \in 1..Len(h.edges), j \in 1..Len(h.edges) :
        /\ h.edges[i].t = h.edges[j].t
        /\ h.edges[i].s # h.edges[j].s
        /\ \E a \in NodeIds(h) :
              {h.edges[i].s, h.edges[j].s} \subseteq {a} \cup Descendants(h, a)

(* What _get_children_of_node has returned to _update_memberlist so far is, node *)
(* by node, the set of the node's proper descendants                             *)
ResultsAreDescendants ==
    \A k \in 1..Len(call.results) : call.results[k] = Descendants(hierarchy, k - 1)

(* C26: on an acyclic hierarchy, reconverging paths included, every call of       *)
(* _get_children_of_node returns, with exactly the proper descendants of its node, *)
(* and _update_memberlist ends after it has processed every node.                 *)
C26_DagTraversalTerminates ==
    /\ [](( Traversal /\ Acyclic(hierarchy))
             => /\ pc # "failed"
                /\ ResultsAreDescendants
                /\ pc = "updated" => Len(call.results) = Len(hierarchy.nodes))
    /\ ((Traversal /\ pc = "traversing" /\ Acyclic(hierarchy)) ~> (pc = "updated"))

C26_Witness ==
    /\ Traversal
    /\ pc = "updated"
    /\ Acyclic(hierarchy)
    /\ Reconverging(hierarchy)
    /\ Len(call.results) = 3
    /\ call.results[1] = {1, 2}

(* C27: on a hierarchy with a directed cycle (a self-loop and a two-cycle       *)
(* included) _get_children_of_node never returns a result for a node of the     *)
(* cycle: its recursion deepens until no frame is left, and DDOT -> Hierarchy   *)
(* never yields a hierarchy.                                                    *)
C27_CycleNeverReturns ==
    /\ [](Traversal
             => /\ \A k \in 1..Len(call.results) : (k - 1) \notin Descendants(hierarchy, k - 1)
                /\ pc = "updated" => Acyclic(hierarchy))
    /\ ((Traversal /\ pc = "traversing" /\ ~Acyclic(hierarchy))
            ~> (pc = "failed" /\ outcome = "RecursionError" /\ Len(stack) = MaxDepth))

C27_Witness ==
    /\ Traversal
    /\ pc = "failed"
    /\ outcome = "RecursionError"
    /\ Len(stack) = MaxDepth
    /\ Len(hierarchy.edges) = 2
    /\ hierarchy.edges[1].s = hierarchy.edges[2].t
    /\ hierarchy.edges[1].t = hierarchy.edges[2].s
    /\ hierarchy.edges[1].s # hierarchy.edges[1].t

-----------------------------------------------------------------------------
SaveCalled == scenario = "save" /\ call.op = "_save_network"

SaveEnded == SaveCalled /\ pc \in {"returned", "raised"}

(* C28: for every max_retries and every sequence of client answers _save_network *)
(* makes at most max_retries attempts and ends by returning the (uuid, url) pair *)
(* of the first str answer or by raising CellMapsError; only a RequestException  *)
(* leads to another attempt, max_retries of them in a row end in CellMapsError,  *)
(* and an answer that is not a str or any other exception raises CellMapsError   *)
(* at once.                                                                      *)
C28_SaveRetryProtocol ==
    SaveCalled
        => /\ call.attempts <= call.max_retries
           /\ call.attempts = Len(call.answers)
           /\ \A k \in 1..(Len(call.answers) - 1) : call.answers[k].kind = "RequestException"
           /\ pc = "saving" => \A k \in 1..Len(call.answers) :
                                  call.answers[k].kind = "RequestException"
           /\ SaveEnded
                 => \/ /\ pc = "returned"
                       /\ outcome = "ok"
                       /\ call.answers[Len(call.answers)].kind = "str"
                       /\ Len(call.result) = 2
                    \/ /\ pc = "raised"
                       /\ outcome = "CellMapsError"
                       /\ call.answers[Len(call.answers)].kind # "str"
                       /\ call.answers[Len(call.answers)].kind = "RequestException"
                             => call.attempts = call.max_retries

====
